---- MODULE Spec2Model ----
(***************************************************************************)
(* Model of the attribute resolution, burndown forecasting and metrics    *)
(* persistence code of reverse_engineer_API.                               *)
(*                                                                         *)
(* Encoding of Python values:                                              *)
(*   None                     the string "null"                            *)
(*   an optional number       <<>> for None, <<n>> for the number n        *)
(*   a dict keyed by strings  a function (record) over its keys            *)
(*   f"{feet}' {inches}\""     the pair <<feet, inches>>                    *)
(*   a rate in poles/day      the integer 7 * rate (poles/week)            *)
(***************************************************************************)
EXTENDS Integers, Sequences, FiniteSets, Bags, TLC

VARIABLES
    pc,              \* position of the run a specification models
    inp,             \* input handed to a pure function (a raw node, a bag ...)
    out,             \* what the function returned for inp
    utility_metrics, \* BurndownCalculator.utility_metrics
    project_metrics, \* BurndownCalculator.project_metrics
    status_metrics,  \* BurndownCalculator.status_metrics
    weekly_completion_rates, \* BurndownCalculator.weekly_completion_rates
    node_processing_stats,   \* BurndownCalculator.node_processing_stats
    days_elapsed,    \* BurndownCalculator.days_elapsed
    now,             \* datetime.datetime.now(), in days
    bd_last,         \* utility, project and counts of the last update_job_metrics
    job_metrics,     \* table job_metrics
    daily_snapshots, \* table daily_snapshots
    status_changes,  \* table status_changes
    pole_metrics,    \* table pole_metrics
    user_metrics,    \* table user_metrics
    user_daily_summary, \* table user_daily_summary
    burndown_metrics, \* table burndown_metrics
    st_last,         \* the arguments of the last record_job_metrics call
    writers          \* the record_job_metrics executions in progress

vars == <<pc, inp, out, utility_metrics, project_metrics, status_metrics,
          weekly_completion_rates, node_processing_stats, days_elapsed, now, bd_last, job_metrics, daily_snapshots,
          status_changes, pole_metrics, user_metrics, user_daily_summary,
          burndown_metrics, st_last, writers>>

bdVars == <<utility_metrics, project_metrics, status_metrics,
            weekly_completion_rates, node_processing_stats, days_elapsed,
            now, bd_last>>

dbVars == <<job_metrics, daily_snapshots, status_changes, pole_metrics,
            user_metrics, user_daily_summary, burndown_metrics, st_last,
            writers>>

----------------------------------------------------------------------------
(* Python values *)

None == "null"

\* truth value of an optional string: None and '' are falsy
Truthy(v) == v # None /\ v # ""

Min(a, b) == IF a <= b THEN a ELSE b

\* dict.get(key, default) for a dict modelled as a function
Get(d, key, default) == IF key \in DOMAIN d THEN d[key] ELSE default

EmptyDict == [k \in {} |-> None]

----------------------------------------------------------------------------
(* Attribute resolution *)

TypeSources == <<"-Imported", "button_added", "value", "auto_calced">>

BurndownTypeSources == <<"button_added", "-Imported", "value", "auto_calced">>

\* a wrong test: "is not None" in place of truthiness
RECURSIVE ResolveFromPresent(_, _, _, _)
ResolveFromPresent(bag, priority, i, default) ==
    IF i > Len(priority) THEN default
    ELSE LET v == Get(bag, priority[i], None)
         IN  IF v # None THEN v
             ELSE ResolveFromPresent(bag, priority, i + 1, default)

\* for source in priority: v = bag.get(source); if v: result = v; break
RECURSIVE ResolveFrom(_, _, _, _)
ResolveFrom(bag, priority, i, default) ==
    IF i > Len(priority) THEN default
    ELSE LET v == Get(bag, priority[i], None)
         IN  IF Truthy(v) THEN v
             ELSE ResolveFrom(bag, priority, i + 1, default)

Resolve(bag, priority, default) == ResolveFrom(bag, priority, 1, default)

----------------------------------------------------------------------------
(* Node classification *)

\* main.py extractNodes: node_type = 'Unknown'; the first truthy value over
\* node_type then pole_type, each scanned in TypeSources order; the outer
\* loop stops as soon as node_type != 'Unknown'
MainNodeType(n) ==
    LET t1 == Resolve(n.node_type, TypeSources, "Unknown")
    IN  IF t1 # "Unknown" THEN t1
        ELSE Resolve(n.pole_type, TypeSources, "Unknown")

\* burndown_calculator.py update_job_metrics: node_type = None; the first
\* truthy value over node_type then pole_type in BurndownTypeSources order
BurndownNodeType(n) ==
    LET t1 == Resolve(n.node_type, BurndownTypeSources, None)
    IN  IF Truthy(t1) THEN t1
        ELSE Resolve(n.pole_type, BurndownTypeSources, None)

\* database/metrics_recorder.py _is_pole_node: any of the eight
\* (type field, source) values equals 'pole'
IsPoleNode(n) ==
    \E f \in {"node_type", "pole_type"} :
        \E i \in 1..Len(BurndownTypeSources) :
            Get(n[f], BurndownTypeSources[i], None) = "pole"

\* completion of a pole in update_job_metrics: done[source] == True for the
\* first of button_added, -Imported, multi_added
DoneSources == <<"button_added", "-Imported", "multi_added">>

BurndownDone(n) ==
    \E i \in 1..Len(DoneSources) : Get(n.done, DoneSources[i], FALSE) = TRUE

----------------------------------------------------------------------------
(* Height conversion *)

\* feet = int(h // 12); inches = int(h % 12); f"{feet}' {inches}\""
\* (Python floor division and modulo, as \div and % are)
FeetInches(h) == <<h \div 12, h % 12>>

\* the scan of the matching channels of one measurement family: the first
\* channel whose _measured_height is not None is converted and ends the scan
RECURSIVE ScanChannels(_, _)
ScanChannels(channels, i) ==
    IF i > Len(channels) THEN <<>>
    ELSE IF channels[i] # <<>> THEN FeetInches(channels[i][1])
         ELSE ScanChannels(channels, i + 1)

\* extractNodes: wire channels first, guying channels "if not poa_height"
PoaHeight(n) ==
    LET w == ScanChannels(n.wire, 1)
    IN  IF w # <<>> THEN w ELSE ScanChannels(n.guying, 1)

\* extractConnections: 'attachment_height' in sections and not None
ConnectionHeight(c) ==
    IF c.attachment_height # <<>> THEN FeetInches(c.attachment_height[1])
    ELSE <<>>

----------------------------------------------------------------------------
(* Utility (company) resolution *)

\* pole_tag.get(key, {}).get('company'); pole_tag is the sequence of its
\* (key, child) items in dict order, a child being [key, has_company, company]
PoleTagCompany(pt, key) ==
    IF \E i \in 1..Len(pt) : pt[i].key = key /\ pt[i].has_company
    THEN LET i == CHOOSE j \in 1..Len(pt) : pt[j].key = key /\ pt[j].has_company
         IN  pt[i].company
    ELSE None

\* attributes.get('pole_tag', {}).get('-Imported', {}).get('company', 'Unknown')
ImportedCompany(pt) ==
    IF \E i \in 1..Len(pt) : pt[i].key = "-Imported" /\ pt[i].has_company
    THEN PoleTagCompany(pt, "-Imported")
    ELSE "Unknown"

\* for key, value in pole_tag.items(): if 'company' in value: take it, break
RECURSIVE FirstChildCompany(_, _, _)
FirstChildCompany(pt, i, default) ==
    IF i > Len(pt) THEN default
    ELSE IF pt[i].has_company THEN pt[i].company
         ELSE FirstChildCompany(pt, i + 1, default)

\* the company of one node as update_job_metrics and record_job_metrics
\* resolve it: pole_tag -Imported or button_added, then any child of
\* pole_tag, then the company attribute in TypeSources order; a falsy
\* result is returned as None
NodeCompany(n) ==
    LET a  == PoleTagCompany(n.pole_tag, "-Imported")
        c1 == IF Truthy(a) THEN a ELSE PoleTagCompany(n.pole_tag, "button_added")
        c2 == IF Truthy(c1) THEN c1 ELSE FirstChildCompany(n.pole_tag, 1, c1)
    IN  IF Truthy(c2) THEN c2 ELSE Resolve(n.company, TypeSources, None)

\* update_job_metrics: utility = company of the first node that has one
RECURSIVE BurndownUtility(_, _)
BurndownUtility(nodes, i) ==
    IF i > Len(nodes) THEN "Unknown"
    ELSE IF Truthy(NodeCompany(nodes[i])) THEN NodeCompany(nodes[i])
         ELSE BurndownUtility(nodes, i + 1)

\* main(): utility of the job summary, from the company attribute alone;
\* the scan over nodes stops once utility != 'Unknown'
RECURSIVE MainUtility(_, _)
MainUtility(nodes, i) ==
    IF i > Len(nodes) THEN "Unknown"
    ELSE LET u == Resolve(nodes[i].company, TypeSources, "Unknown")
         IN  IF u # "Unknown" THEN u ELSE MainUtility(nodes, i + 1)

----------------------------------------------------------------------------
(* extractNodes and extractConnections *)

\* the body of extractNodes' loop for one node: <<>> when the node yields no
\* point, <<point>> otherwise
ExtractNode(id, n) ==
    IF MainNodeType(n) # "pole" THEN <<>>
    ELSE IF n.latitude = None \/ n.longitude = None THEN <<>>
    ELSE << [id |-> id,
             lat |-> n.latitude,
             lng |-> n.longitude,
             company |-> ImportedCompany(n.pole_tag),
             POA_Height |-> PoaHeight(n)] >>

\* the body of extractConnections' second loop for one connection
ExtractConnection(id, c) ==
    IF ~c.node_1_known \/ ~c.node_2_known THEN <<>>
    ELSE IF c.start_coord = None \/ c.end_coord = None THEN <<>>
    ELSE << [connection_id |-> id,
             connection_type |->
                 Resolve(c.connection_type, <<"button_added", "value">>, "Unknown"),
             attachment_height |-> ConnectionHeight(c)] >>

----------------------------------------------------------------------------
(* BurndownCalculator *)

BACK_OFFICE_RATE == 100

FIELD_RATE == 80

BackOfficeStatuses ==
    {"Pending Photo Annotation", "Photo Annotation In Progress", "QA Review"}

FieldStatuses == {"Field Collection In Progress", "Pending Field Collection"}

NewUtilityMetrics ==
    [total_poles |-> 0, completed_poles |-> 0, run_rate |-> 0,
     estimated_completion |-> <<>>]

NewProjectMetrics(start, end) ==
    [total_poles |-> 0, completed_poles |-> 0, run_rate |-> 0,
     estimated_completion |-> <<>>, back_office_users |-> {},
     field_users |-> {}, start_date |-> start, end_date |-> end]

\* pole_count and completed_poles of the node loop of update_job_metrics
RECURSIVE CountPoles(_, _)
CountPoles(nodes, i) ==
    IF i > Len(nodes) THEN 0
    ELSE (IF BurndownNodeType(nodes[i]) = "pole" THEN 1 ELSE 0)
         + CountPoles(nodes, i + 1)

RECURSIVE CountCompleted(_, _)
CountCompleted(nodes, i) ==
    IF i > Len(nodes) THEN 0
    ELSE (IF BurndownNodeType(nodes[i]) = "pole" /\ BurndownDone(nodes[i])
          THEN 1 ELSE 0)
         + CountCompleted(nodes, i + 1)

\* a wrong bottleneck: the two pools added up
EffectiveRateSum(back_office_users, field_users) ==
    back_office_users * BACK_OFFICE_RATE + field_users * FIELD_RATE

\* effective_daily_rate = min(back_office_users * back_office_capacity,
\*                            field_users * field_capacity), times 7
EffectiveRate(back_office_users, field_users) ==
    Min(back_office_users * BACK_OFFICE_RATE, field_users * FIELD_RATE)

\* lines 286-291: the estimate is recomputed only when run_rate > 0;
\* <<[now, remaining, run_rate]>> stands for now + remaining / run_rate
WithEstimate(m, t) ==
    IF m.run_rate > 0
    THEN [m EXCEPT !.estimated_completion =
              << [now |-> t,
                  remaining |-> m.total_poles - m.completed_poles,
                  run_rate |-> m.run_rate] >>]
    ELSE m

\* a wrong update: the user replaces the pool instead of joining it
WithUserLast(pm, status, osp) ==
    IF status \in BackOfficeStatuses /\ Truthy(osp)
    THEN [pm EXCEPT !.back_office_users = {osp}]
    ELSE IF status \in FieldStatuses /\ Truthy(osp)
    THEN [pm EXCEPT !.field_users = {osp}]
    ELSE pm

\* users of the project after "Track users by category"
WithUser(pm, status, osp) ==
    IF status \in BackOfficeStatuses /\ Truthy(osp)
    THEN [pm EXCEPT !.back_office_users = @ \cup {osp}]
    ELSE IF status \in FieldStatuses /\ Truthy(osp)
    THEN [pm EXCEPT !.field_users = @ \cup {osp}]
    ELSE pm

\* node_processing_stats as __init__ builds it
NewNodeStats ==
    [total_nodes |-> 0, processed_nodes |-> 0, skipped_nodes |-> 0,
     error_nodes |-> 0, pole_types |-> EmptyDict,
     completion_sources |->
         [s \in {"button_added", "-Imported", "multi_added"} |-> 0]]

\* job_stats['pole_types'][t]: the nodes whose resolved type is t
RECURSIVE CountType(_, _, _)
CountType(nodes, i, t) ==
    IF i > Len(nodes) THEN 0
    ELSE (IF BurndownNodeType(nodes[i]) = t THEN 1 ELSE 0)
         + CountType(nodes, i + 1, t)

\* the source the done loop stops at: the first of DoneSources that is True
RECURSIVE DoneSource(_, _)
DoneSource(n, i) ==
    IF i > Len(DoneSources) THEN None
    ELSE IF Get(n.done, DoneSources[i], FALSE) = TRUE THEN DoneSources[i]
         ELSE DoneSource(n, i + 1)

\* job_stats['completion_sources'][s]
RECURSIVE CountSource(_, _, _)
CountSource(nodes, i, s) ==
    IF i > Len(nodes) THEN 0
    ELSE (IF BurndownNodeType(nodes[i]) = "pole" /\ DoneSource(nodes[i], 1) = s
          THEN 1 ELSE 0)
         + CountSource(nodes, i + 1, s)

\* "Update global stats": the job's counts added to node_processing_stats;
\* every node of the model is a dict with dict attributes, so none is
\* skipped and none raises
AddJobStats(stats, nodes) ==
    LET types == {BurndownNodeType(nodes[i]) : i \in 1..Len(nodes)}
        seen  == {t \in types : Truthy(t)}
    IN  [stats EXCEPT
            !.total_nodes = @ + Len(nodes),
            !.processed_nodes = @ + Len(nodes),
            !.pole_types =
                [t \in DOMAIN stats.pole_types \cup seen |->
                    Get(stats.pole_types, t, 0) + CountType(nodes, 1, t)],
            !.completion_sources =
                [s \in DOMAIN stats.completion_sources |->
                    stats.completion_sources[s] + CountSource(nodes, 1, s)]]

\* "Track weekly completion rates" for one category: the list is created,
\* and from a week of data on completed_poles / (days_elapsed / 7) is
\* appended, kept here as the pair <<7 * completed_poles, days_elapsed>>
WithWeeklyRate(rates, category, completed, days) ==
    LET old == Get(rates, category, <<>>)
    IN  [c \in DOMAIN rates \cup {category} |->
            IF c = category
            THEN (IF days >= 7 THEN Append(old, <<7 * completed, days>>)
                  ELSE old)
            ELSE rates[c]]

\* a wrong validation: a nodes field that is not a dict is let through
ReachesNodeLoopUnvalidated(shape) ==
    shape \in {"ok", "status_unhashable", "osp_unhashable", "nodes_not_dict"}

\* the shapes with which update_job_metrics gets to its node loop: job_data,
\* metadata and nodes are dicts.  With a job_data that is not a dict
\* job_data.get raises at the first statement, with a metadata that is not
\* a dict the method returns, and with a nodes that is not a dict
\* nodes.values() raises in the utility scan
ReachesNodeLoop(shape) ==
    shape \in {"ok", "status_unhashable", "osp_unhashable"}

\* BurndownCalculator.update_job_metrics(job_data) called at time t.
\* job.shape tells what the JSON holds: "ok"; a job_data, metadata or nodes
\* that is not a dict (nothing is reached); "status_unhashable", a status
\* that is a list, on which `status not in self.status_metrics` raises;
\* "osp_unhashable", an assigned_OSP that is a list, on which set.add
\* raises.  The outer except swallows what is raised and keeps what the
\* statements before it assigned.
UpdateJobMetrics(job, t) ==
    IF ~ReachesNodeLoop(job.shape)
    THEN UNCHANGED <<utility_metrics, project_metrics, status_metrics,
                     weekly_completion_rates, node_processing_stats, bd_last>>
    ELSE
    LET utility   == BurndownUtility(job.nodes, 1)
        project   == job.project
        status    == job.status
        pole_count == CountPoles(job.nodes, 1)
        completed == CountCompleted(job.nodes, 1)
        tracked   == job.shape # "status_unhashable"
                        /\ status \in BackOfficeStatuses \cup FieldStatuses
        raisesAtUsers  == job.shape = "osp_unhashable" /\ tracked
        raisesAtStatus == job.shape = "status_unhashable"
        um0 == IF utility \in DOMAIN utility_metrics THEN utility_metrics[utility]
               ELSE NewUtilityMetrics
        pm0 == IF project \in DOMAIN project_metrics THEN project_metrics[project]
               ELSE NewProjectMetrics(job.start_date, job.end_date)
        um1 == [um0 EXCEPT !.total_poles = @ + pole_count,
                           !.completed_poles = @ + completed]
        pmt == [pm0 EXCEPT !.total_poles = @ + pole_count,
                           !.completed_poles = @ + completed]
        pm1 == IF tracked THEN WithUser(pmt, status, job.assigned_OSP) ELSE pmt
        rate == EffectiveRate(Cardinality(pm1.back_office_users),
                              Cardinality(pm1.field_users))
        um2 == IF raisesAtUsers THEN um1
               ELSE IF days_elapsed > 0
               THEN WithEstimate([um1 EXCEPT !.run_rate = rate], t) ELSE um1
        pm2 == IF raisesAtUsers THEN pmt
               ELSE IF days_elapsed > 0
               THEN WithEstimate([pm1 EXCEPT !.run_rate = rate], t) ELSE pm1
        sm0 == IF status \in DOMAIN status_metrics THEN status_metrics[status]
               ELSE [total_poles |-> 0, completed_poles |-> 0]
    IN  /\ utility_metrics' =
               [u \in DOMAIN utility_metrics \cup {utility} |->
                   IF u = utility THEN um2 ELSE utility_metrics[u]]
        /\ project_metrics' =
               [p \in DOMAIN project_metrics \cup {project} |->
                   IF p = project THEN pm2 ELSE project_metrics[p]]
        /\ IF raisesAtUsers \/ raisesAtStatus
           THEN UNCHANGED <<status_metrics, weekly_completion_rates>>
           ELSE /\ status_metrics' =
                    [s \in DOMAIN status_metrics \cup {status} |->
                        IF s = status
                        THEN [total_poles |-> sm0.total_poles + pole_count,
                              completed_poles |->
                                  sm0.completed_poles + completed]
                        ELSE status_metrics[s]]
                /\ weekly_completion_rates' =
                    WithWeeklyRate(
                        WithWeeklyRate(weekly_completion_rates, utility,
                                       completed, days_elapsed),
                        project, completed, days_elapsed)
        /\ node_processing_stats' = AddJobStats(node_processing_stats, job.nodes)
        /\ bd_last' = [utility |-> utility, project |-> project,
                       pole_count |-> pole_count, completed_poles |-> completed]

\* BurndownCalculator.get_project_status(metrics, current_date), reached
\* from calculate_project_burndown with start_date set and
\* current_date - start_date > 0; the float comparisons are cross-multiplied
GetProjectStatus(m, current_date) ==
    IF m.completed_poles >= m.total_poles THEN "Completed"
    ELSE IF current_date < m.start_date[1] THEN "Not Started"
    ELSE IF m.end_date = <<>> THEN "In Progress"
    ELSE IF current_date > m.end_date[1] THEN "Overdue"
    ELSE LET span  == m.end_date[1] - m.start_date[1]
             since == current_date - m.start_date[1]
         IN  IF m.completed_poles * span >= since * m.total_poles
             THEN "On Track"
             ELSE IF 10 * m.completed_poles * span >= 8 * since * m.total_poles
             THEN "At Risk"
             ELSE "Behind Schedule"

\* BurndownCalculator.calculate_project_burndown(project, current_date)
CalculateProjectBurndown(project, current_date) ==
    IF project \notin DOMAIN project_metrics
    THEN [project |-> project, total_poles |-> 0, completed_poles |-> 0,
          back_office_users |-> 0, field_users |-> 0,
          estimated_completion |-> <<>>, status |-> "Not Started"]
    ELSE
    LET m  == project_metrics[project]
        bo == Cardinality(m.back_office_users)
        f  == Cardinality(m.field_users)
        daily_capacity == EffectiveRate(bo, f)
    IN  IF m.start_date = <<>>
        THEN [project |-> project, total_poles |-> m.total_poles,
              completed_poles |-> m.completed_poles,
              back_office_users |-> bo, field_users |-> f,
              estimated_completion |-> <<>>, status |-> "Unknown"]
        ELSE IF current_date - m.start_date[1] <= 0
        THEN [project |-> project, total_poles |-> m.total_poles,
              completed_poles |-> 0,
              back_office_users |-> bo, field_users |-> f,
              estimated_completion |-> <<>>, status |-> "Not Started"]
        ELSE [project |-> project, total_poles |-> m.total_poles,
              completed_poles |-> m.completed_poles,
              back_office_users |-> bo, field_users |-> f,
              estimated_completion |->
                  IF daily_capacity > 0
                  THEN << [now |-> current_date,
                           remaining |-> m.total_poles - m.completed_poles,
                           run_rate |-> daily_capacity] >>
                  ELSE <<>>,
              status |-> GetProjectStatus(m, current_date)]

----------------------------------------------------------------------------
(* MetricsRecorder (database/metrics_recorder.py)                          *)
(* A table is a bag of rows; timestamps are hours.                         *)

HoursPerDay == 24

\* DATE(timestamp)
DateOf(ts) == ts \div HoursPerDay

Insert(table, row) == table (+) SetToBag({row})

\* INSERT ... ON CONFLICT (key) DO UPDATE SET every other column
Upsert(table, row, key) ==
    LET hit == {r \in BagToSet(table) : \A c \in key : r[c] = row[c]}
        kept == [r \in BagToSet(table) \ hit |-> table[r]]
    IN  Insert(kept, row)

\* the ON CONFLICT targets
JobTimestamp == {"job_id", "timestamp"}

JobSnapshotDate == {"job_id", "snapshot_date"}

JobChangedAt == {"job_id", "changed_at"}

JobNodeTimestamp == {"job_id", "node_id", "timestamp"}

UserDateRole == {"user_id", "date", "role"}

\* the tables as one record, for the steps below
DB ==
    [job_metrics |-> job_metrics, daily_snapshots |-> daily_snapshots,
     status_changes |-> status_changes, pole_metrics |-> pole_metrics,
     user_metrics |-> user_metrics]

GetFieldCompleted(n) == n.field_completed

GetBackOfficeCompleted(n) == n.backoffice_complete

\* total_poles = len([n for n in nodes.values() if self._is_pole_node(n)])
TotalPoles(nodes) ==
    Cardinality({i \in 1..Len(nodes) : IsPoleNode(nodes[i])})

FieldComplete(nodes) ==
    Cardinality({i \in 1..Len(nodes) : GetFieldCompleted(nodes[i])})

BackOfficeComplete(nodes) ==
    Cardinality({i \in 1..Len(nodes) : GetBackOfficeCompleted(nodes[i])})

\* utility_counts, in insertion order, of the companies of the nodes
RECURSIVE CompanyOrder(_, _)
CompanyOrder(nodes, i) ==
    IF i > Len(nodes) THEN <<>>
    ELSE LET c    == NodeCompany(nodes[i])
             rest == CompanyOrder(nodes, i + 1)
         IN  IF Truthy(c) /\ c # "Unknown"
             THEN <<c>> \o SelectSeq(rest, LAMBDA x : x # c)
             ELSE rest

CompanyCount(nodes, c) ==
    Cardinality({i \in 1..Len(nodes) : NodeCompany(nodes[i]) = c})

\* max(utility_counts.items(), key=count)[0]: the first company, in
\* insertion order, that has the greatest count
RECURSIVE FirstMax(_, _, _, _)
FirstMax(nodes, order, i, best) ==
    IF i > Len(order) THEN best
    ELSE IF CompanyCount(nodes, order[i]) > CompanyCount(nodes, best)
         THEN FirstMax(nodes, order, i + 1, order[i])
         ELSE FirstMax(nodes, order, i + 1, best)

\* record_job_metrics lines 58-106
RecorderUtility(job) ==
    IF Truthy(job.utility) THEN job.utility
    ELSE LET order == CompanyOrder(job.nodes, 1)
         IN  IF order = <<>> THEN "Unknown"
             ELSE FirstMax(job.nodes, order, 2, order[1])

\* _create_daily_snapshot
CreateDailySnapshot(db, job, ts) ==
    [db EXCEPT !.daily_snapshots =
        Upsert(@, [job_id |-> job.id,
                   snapshot_date |-> DateOf(ts),
                   status |-> job.job_status,
                   utility |-> RecorderUtility(job),
                   total_poles |-> TotalPoles(job.nodes),
                   field_complete |-> FieldComplete(job.nodes),
                   back_office_complete |-> BackOfficeComplete(job.nodes),
                   created_at |-> ts],
               JobSnapshotDate)]

\* _insert_job_metrics
InsertJobMetrics(db, job, ts) ==
    [db EXCEPT !.job_metrics =
        Upsert(@, [job_id |-> job.id,
                   timestamp |-> ts,
                   status |-> job.job_status,
                   utility |-> RecorderUtility(job),
                   total_poles |-> TotalPoles(job.nodes),
                   completed_poles |-> FieldComplete(job.nodes),
                   field_complete |-> FieldComplete(job.nodes),
                   back_office_complete |-> BackOfficeComplete(job.nodes),
                   assigned_users |->
                       IF Truthy(job.assigned_OSP) THEN <<job.assigned_OSP>>
                       ELSE <<>>],
               JobTimestamp)]

\* SELECT status, timestamp FROM job_metrics WHERE job_id = %s
\* ORDER BY timestamp DESC LIMIT 1: <<>> or <<row>>
NewestJobMetrics(table, job_id) ==
    LET rows == {r \in BagToSet(table) : r.job_id = job_id}
    IN  IF rows = {} THEN <<>>
        ELSE << CHOOSE r \in rows : \A q \in rows : q.timestamp <= r.timestamp >>

\* _record_status_change
RecordStatusChange(db, job, ts, previous_status, duration_hours) ==
    [db EXCEPT !.status_changes =
        Upsert(@, [job_id |-> job.id,
                   previous_status |-> previous_status,
                   new_status |-> job.job_status,
                   changed_at |-> ts,
                   changed_by |-> job.assigned_OSP,
                   duration_hours |-> duration_hours],
               JobChangedAt)]

\* _check_status_changes after its SELECT returned result
WriteStatusChange(db, job, ts, result) ==
    IF result = <<>>
    THEN RecordStatusChange(db, job, ts, None, <<>>)
    ELSE IF result[1].status # job.job_status
    THEN RecordStatusChange(db, job, ts, result[1].status,
                            <<ts - result[1].timestamp>>)
    ELSE db

\* _check_status_changes
CheckStatusChanges(db, job, ts) ==
    WriteStatusChange(db, job, ts, NewestJobMetrics(db.job_metrics, job.id))

\* _get_editor_info: the last photo with editors of each association wins
RECURSIVE EditorInfo(_, _, _)
EditorInfo(photos, i, info) ==
    IF i > Len(photos) THEN info
    ELSE IF photos[i].editor = None THEN EditorInfo(photos, i + 1, info)
    ELSE IF photos[i].association = "main"
    THEN EditorInfo(photos, i + 1,
                    [info EXCEPT !.field_completed_by = photos[i].editor])
    ELSE EditorInfo(photos, i + 1,
                    [info EXCEPT !.annotated_by = photos[i].editor])

\* _record_pole_metrics: one upsert per pole node
RECURSIVE PoleRows(_, _, _, _)
PoleRows(table, job, ts, i) ==
    IF i > Len(job.nodes) THEN table
    ELSE LET n == job.nodes[i]
             e == EditorInfo(n.photos, 1,
                             [field_completed_by |-> None, annotated_by |-> None])
         IN  IF ~IsPoleNode(n) THEN PoleRows(table, job, ts, i + 1)
             ELSE PoleRows(
                    Upsert(table,
                           [job_id |-> job.id,
                            node_id |-> n.id,
                            timestamp |-> ts,
                            utility |-> ImportedCompany(n.pole_tag),
                            field_completed |-> n.field_completed,
                            field_completed_by |-> e.field_completed_by,
                            back_office_completed |-> n.backoffice_complete,
                            annotated_by |-> e.annotated_by],
                           JobNodeTimestamp),
                    job, ts, i + 1)

RecordPoleMetrics(db, job, ts) ==
    [db EXCEPT !.pole_metrics = PoleRows(@, job, ts, 1)]

\* the (node, photo) pairs _record_user_metrics counts for a role: photos of
\* pole nodes that have editors, split on photo_data[photo_id]['association']
PhotosOf(job) ==
    UNION {{<<i, k>> : k \in 1..Len(job.nodes[i].photos)} :
              i \in 1..Len(job.nodes)}

EditedPhotos(job, role) ==
    {p \in PhotosOf(job) :
        /\ IsPoleNode(job.nodes[p[1]])
        /\ job.nodes[p[1]].photos[p[2]].editor # None
        /\ (role = "field") =
               (job.nodes[p[1]].photos[p[2]].data_association = "main")}

PhotoEditor(job, p) == job.nodes[p[1]].photos[p[2]].editor

\* the rows _record_user_metrics inserts: one per (editor, role)
UserRows(job, ts) ==
    {[user_id |-> PhotoEditor(job, p),
      job_id |-> job.id,
      utility |-> IF job.utility = None THEN "Unknown" ELSE job.utility,
      role |-> role,
      poles_completed |->
          Cardinality({q \in EditedPhotos(job, role) :
                          PhotoEditor(job, q) = PhotoEditor(job, p)}),
      timestamp |-> ts] :
        <<role, p>> \in
            {rp \in {"field", "back_office"} \X PhotosOf(job) :
                rp[2] \in EditedPhotos(job, rp[1])}}

\* _record_user_metrics: INSERT INTO user_metrics, no ON CONFLICT clause
RecordUserMetrics(db, job, ts) ==
    IF ~Truthy(job.assigned_OSP) THEN db
    ELSE [db EXCEPT !.user_metrics = @ (+) SetToBag(UserRows(job, ts))]

\* record_job_metrics(job_data, timestamp): the five persistence steps in
\* the order of lines 125-188
RecordJobMetricsDB(db, job, ts) ==
    RecordUserMetrics(
      RecordPoleMetrics(
        CheckStatusChanges(
          InsertJobMetrics(
            CreateDailySnapshot(db, job, ts), job, ts), job, ts), job, ts),
      job, ts)

SetDB(db) ==
    /\ job_metrics' = db.job_metrics
    /\ daily_snapshots' = db.daily_snapshots
    /\ status_changes' = db.status_changes
    /\ pole_metrics' = db.pole_metrics
    /\ user_metrics' = db.user_metrics

\* SUM(column) over the rows of a bag
RECURSIVE SumRows(_, _)
SumRows(table, rows) ==
    IF rows = {} THEN 0
    ELSE LET r == CHOOSE x \in rows : TRUE
         IN  table[r] * r.poles_completed + SumRows(table, rows \ {r})

\* the SELECT of update_daily_summary: one row per (user_id, role) of the
\* user_metrics rows of the date, with SUM(poles_completed)
DailySummaryRows(table, date) ==
    LET rows == {r \in BagToSet(table) : DateOf(r.timestamp) = date}
    IN  {[user_id |-> k[1], role |-> k[2], date |-> date,
          total_poles_completed |->
              SumRows(table, {r \in rows : r.user_id = k[1] /\ r.role = k[2]})] :
            k \in {<<r.user_id, r.role>> : r \in rows}}

RECURSIVE UpsertAll(_, _)
UpsertAll(table, rows) ==
    IF rows = {} THEN table
    ELSE LET r == CHOOSE x \in rows : TRUE
         IN  UpsertAll(Upsert(table, r, UserDateRole), rows \ {r})

\* MetricsRecorder.update_daily_summary(timestamp)
UpdateDailySummary(ts) ==
    /\ user_daily_summary' =
           UpsertAll(user_daily_summary, DailySummaryRows(user_metrics, DateOf(ts)))
    /\ UNCHANGED <<job_metrics, daily_snapshots, status_changes, pole_metrics,
                   user_metrics>>

----------------------------------------------------------------------------
(* Inputs *)

MaxHeight == 132

Sources == {"-Imported", "button_added", "value", "auto_calced"}

NullBag == [s \in Sources |-> None]

BaseNode ==
    [kind |-> "node", id |-> "n1",
     node_type |-> NullBag, pole_type |-> NullBag,
     latitude |-> "40.1", longitude |-> "-111.9",
     wire |-> <<>>, guying |-> <<>>,
     pole_tag |-> <<>>, company |-> NullBag,
     done |-> [s \in {"button_added", "-Imported", "multi_added"} |-> FALSE],
     field_completed |-> FALSE, backoffice_complete |-> FALSE,
     photos |-> <<>>]

TypeBags == [Sources -> {None, "", "pole", "reference"}]

\* bags with at most one value
SingleBags(values) ==
    {NullBag} \cup {[NullBag EXCEPT ![s] = v] : s \in Sources, v \in values}

\* nodes that differ in their type bags and coordinates
TypeNodes ==
    {[BaseNode EXCEPT !.node_type = nt, !.pole_type = pt,
                      !.latitude = c[1], !.longitude = c[2]] :
        nt \in TypeBags, pt \in SingleBags({"pole", "reference"}),
        c \in {<<"40.1", "-111.9">>, <<None, "-111.9">>, <<"40.1", None>>}}

Heights == {<<>>} \cup {<<h>> : h \in (0 - MaxHeight)..MaxHeight}

PoleBag == [NullBag EXCEPT !["-Imported"] = "pole"]

\* poles that differ in the measured heights of their matching channels
HeightNodes ==
    {[BaseNode EXCEPT !.node_type = PoleBag, !.wire = ch[1], !.guying = ch[2]] :
        ch \in {<< <<h>>, <<>> >> : h \in Heights}
               \cup {<< <<>>, <<h>> >> : h \in Heights}
               \cup {<< << <<>>, h >>, << <<5>> >> >> : h \in Heights}}

PoleTagChildren ==
    {[key |-> k, has_company |-> hc[1], company |-> hc[2]] :
        k \in {"-Imported", "button_added", "multi_added"},
        hc \in {<<FALSE, None>>, <<TRUE, "">>, <<TRUE, "U1">>}}

PoleTags ==
    {<<>>} \cup {<<a>> : a \in PoleTagChildren}
           \cup {p \in PoleTagChildren \X PoleTagChildren : p[1].key # p[2].key}

\* poles that differ in where their company is stored
CompanyNodes ==
    {[BaseNode EXCEPT !.node_type = PoleBag, !.pole_tag = pt, !.company = co] :
        pt \in PoleTags, co \in [Sources -> {None, "", "U1", "U2"}]}

Connections ==
    {[kind |-> "connection", id |-> "c1",
      node_1_known |-> e[1], node_2_known |-> e[2],
      start_coord |-> e[3], end_coord |-> e[4],
      connection_type |-> [button_added |-> ct[1], value |-> ct[2]],
      attachment_height |-> h] :
        e \in {<<TRUE, TRUE, "40.1", "40.2">>, <<FALSE, TRUE, "40.1", "40.2">>,
               <<TRUE, FALSE, "40.1", "40.2">>, <<TRUE, TRUE, None, "40.2">>,
               <<TRUE, TRUE, "40.1", None>>},
        ct \in {<<None, None>>, <<"", "aerial cable">>,
                <<"aerial cable", "reference">>, <<None, "reference">>},
        h \in Heights}

\* a job that holds the single node n
JobOfNode(n) ==
    [id |-> "j1", shape |-> "ok", status |-> "Pending Field Collection",
     job_status |-> "Pending Field Collection", project |-> "P1",
     assigned_OSP |-> "u1", utility |-> None,
     start_date |-> <<0>>, end_date |-> <<>>, nodes |-> <<n>>]

NoBurndown ==
    /\ utility_metrics = EmptyDict
    /\ project_metrics = EmptyDict
    /\ status_metrics = EmptyDict
    /\ weekly_completion_rates = EmptyDict
    /\ node_processing_stats = NewNodeStats
    /\ now = 0
    /\ bd_last = <<>>

NoStore ==
    /\ job_metrics = EmptyBag
    /\ daily_snapshots = EmptyBag
    /\ status_changes = EmptyBag
    /\ pole_metrics = EmptyBag
    /\ user_metrics = EmptyBag
    /\ user_daily_summary = EmptyBag
    /\ burndown_metrics = EmptyBag
    /\ st_last = [n |-> 0]
    /\ writers = <<>>

----------------------------------------------------------------------------
(* One raw node or connection handed to each of its consumers *)

InitExtract ==
    /\ pc = "start"
    /\ inp \in TypeNodes \cup HeightNodes \cup CompanyNodes \cup Connections
    /\ out = <<>>
    /\ days_elapsed = 7
    /\ NoBurndown
    /\ NoStore

ExtractNodes ==
    /\ pc = "start" /\ inp.kind = "node"
    /\ out' = [op |-> "extractNodes", node_type |-> MainNodeType(inp),
               points |-> ExtractNode(inp.id, inp)]
    /\ pc' = "done"
    /\ UNCHANGED <<inp, bdVars, dbVars>>

ExtractConnections ==
    /\ pc = "start" /\ inp.kind = "connection"
    /\ out' = [op |-> "extractConnections",
               connections |-> ExtractConnection(inp.id, inp)]
    /\ pc' = "done"
    /\ UNCHANGED <<inp, bdVars, dbVars>>

FoldNode ==
    /\ pc = "start" /\ inp.kind = "node"
    /\ UpdateJobMetrics(JobOfNode(inp), now)
    /\ out' = [op |-> "update_job_metrics"]
    /\ pc' = "done"
    /\ UNCHANGED <<inp, days_elapsed, now, dbVars>>

RecordNode ==
    /\ pc = "start" /\ inp.kind = "node"
    /\ SetDB(RecordJobMetricsDB(DB, JobOfNode(inp), 0))
    /\ st_last' = [n |-> 1, job |-> JobOfNode(inp), timestamp |-> 0]
    /\ out' = [op |-> "record_job_metrics"]
    /\ pc' = "done"
    /\ UNCHANGED <<inp, bdVars, user_daily_summary, burndown_metrics, writers>>

SummariseNode ==
    /\ pc = "start" /\ inp.kind = "node"
    /\ out' = [op |-> "main", utility |-> MainUtility(<<inp>>, 1)]
    /\ pc' = "done"
    /\ UNCHANGED <<inp, bdVars, dbVars>>

NextExtract ==
    \/ ExtractNodes
    \/ ExtractConnections
    \/ FoldNode
    \/ RecordNode
    \/ SummariseNode

SpecExtract == InitExtract /\ [][NextExtract]_vars

----------------------------------------------------------------------------
(* Properties of SpecExtract *)

\* the values of a bag in the order of a priority list
ValuesIn(bag, priority) == [i \in 1..Len(priority) |-> bag[priority[i]]]

\* the first present and non-empty value of a list, "Unknown" without one
FirstPresent(vals) ==
    IF \E i \in 1..Len(vals) : Truthy(vals[i])
    THEN vals[CHOOSE i \in 1..Len(vals) :
                  Truthy(vals[i]) /\ \A j \in 1..(i - 1) : ~Truthy(vals[j])]
    ELSE "Unknown"

HasTypeValue(n, v) ==
    \E s \in Sources : n.node_type[s] = v \/ n.pole_type[s] = v

\* C7: a node one of whose type sources yields "pole" and another
\* "reference" is not counted as a pole by extractNodes, by
\* update_job_metrics or by _is_pole_node (record_job_metrics' total_poles)
C7_ReferenceExclusion ==
    (/\ pc = "done" /\ inp.kind = "node"
     /\ HasTypeValue(inp, "pole") /\ HasTypeValue(inp, "reference"))
    => /\ out.op = "extractNodes" => out.points = <<>>
       /\ out.op = "update_job_metrics" => bd_last.pole_count = 0
       /\ out.op = "record_job_metrics" =>
              \A r \in BagToSet(job_metrics) : r.total_poles = 0

\* C8: a node without latitude or longitude is absent from extractNodes'
\* output and adds nothing to the pole counts of BurndownCalculator or to
\* the total_poles MetricsRecorder persists
C8_MissingCoordinates ==
    (/\ pc = "done" /\ inp.kind = "node"
     /\ (inp.latitude = None \/ inp.longitude = None))
    => /\ out.op = "extractNodes" => out.points = <<>>
       /\ out.op = "update_job_metrics" =>
              /\ \A u \in DOMAIN utility_metrics : utility_metrics[u].total_poles = 0
              /\ \A p \in DOMAIN project_metrics : project_metrics[p].total_poles = 0
       /\ out.op = "record_job_metrics" =>
              \A r \in BagToSet(job_metrics) : r.total_poles = 0

\* what the claim asks of the conversion of one measured value
HeightAsClaimed(measured, converted) ==
    IF measured # <<>> /\ measured[1] >= 0
    THEN /\ converted # <<>>
         /\ converted[1] * 12 + converted[2] = measured[1]
         /\ converted[2] \in 0..11
    ELSE converted = <<>>

\* C9: a non-negative measured height h converts to (h div 12, h mod 12);
\* a null or negative measured value yields null, in extractNodes (one wire
\* channel) and in extractConnections
C9_HeightConversion ==
    /\ (/\ pc = "done" /\ out.op = "extractNodes"
        /\ Len(inp.wire) = 1 /\ inp.guying = <<>> /\ out.points # <<>>)
       => HeightAsClaimed(inp.wire[1], out.points[1].POA_Height)
    /\ (/\ pc = "done" /\ out.op = "extractConnections"
        /\ out.connections # <<>>)
       => HeightAsClaimed(inp.attachment_height,
                          out.connections[1].attachment_height)

Reversed(items) == [i \in 1..Len(items) |-> items[Len(items) + 1 - i]]

\* C11: the resolved type and the resolved utility of a node are the same
\* for every iteration order of the source-tag mapping they are read from:
\* the node resolved with its pole_tag items in the opposite order gives
\* the same type and the same utility in extractNodes, update_job_metrics,
\* record_job_metrics and main's job summary
C11_ResolverDeterminism ==
    (pc = "done" /\ inp.kind = "node") =>
       LET other == [inp EXCEPT !.pole_tag = Reversed(@)]
       IN  /\ out.op = "extractNodes" => out.node_type = MainNodeType(other)
           /\ out.op = "update_job_metrics" =>
                  /\ bd_last.utility = BurndownUtility(<<other>>, 1)
                  /\ bd_last.pole_count = CountPoles(<<other>>, 1)
           /\ out.op = "record_job_metrics" =>
                  \A r \in BagToSet(job_metrics) :
                      r.utility = RecorderUtility(JobOfNode(other))
           /\ out.op = "main" => out.utility = MainUtility(<<other>>, 1)

----------------------------------------------------------------------------
(* A reporting run: jobs folded one after the other into one calculator *)

MaxFolds == 3

Pole(id, co, dn) ==
    [BaseNode EXCEPT
        !.id = id, !.node_type = PoleBag,
        !.pole_tag = IF co = None THEN <<>>
                     ELSE <<[key |-> "-Imported", has_company |-> TRUE,
                             company |-> co]>>,
        !.done = [@ EXCEPT !["button_added"] = dn]]

Reference(id) ==
    [BaseNode EXCEPT
        !.id = id, !.node_type = [NullBag EXCEPT !["button_added"] = "reference"]]

Projects == {"P1", "P2"}

Job(st, p, osp, ns) ==
    [id |-> "j1", shape |-> "ok", status |-> st, job_status |-> st,
     project |-> p, assigned_OSP |-> osp, utility |-> None,
     start_date |-> IF p = "P1" THEN <<0>> ELSE <<>>, end_date |-> <<4>>,
     nodes |-> ns]

BurndownJobs ==
    {Job(st, p, osp, <<Pole("n1", "U1", FALSE), Pole("n2", "U1", TRUE)>>) :
        st \in {"Pending Photo Annotation", "Pending Field Collection"},
        p \in Projects, osp \in {"u1", "u2"}}
    \cup
    {Job("Delivered", p, None, <<Pole("n1", "U1", TRUE)>>) : p \in Projects}
    \cup
    {Job("Delivered", "P2", "u1", <<Pole("n1", "U2", FALSE)>>),
     Job("QA Review", "P1", None, <<Reference("n1"), Pole("n2", None, TRUE)>>),
     [Job("Delivered", "P1", "u1", <<Pole("n1", "U1", TRUE)>>)
         EXCEPT !.shape = "metadata_not_dict"]}

InitBurndown ==
    /\ pc = "run"
    /\ inp = <<>>
    /\ out = <<>>
    /\ days_elapsed \in {0, 7}
    /\ NoBurndown
    /\ NoStore

\* one iteration of the reporting loop: burndown.update_job_metrics(job_data)
Fold ==
    /\ pc = "run" /\ now < MaxFolds
    /\ \E job \in BurndownJobs : UpdateJobMetrics(job, now)
    /\ now' = now + 1
    /\ UNCHANGED <<pc, inp, out, days_elapsed, dbVars>>

\* the end of the run: get_burndown_metrics' 'by_project' entry of a project
ProjectBurndown ==
    /\ pc = "run"
    /\ \E p \in Projects : out' = CalculateProjectBurndown(p, now)
    /\ pc' = "reported"
    /\ UNCHANGED <<inp, bdVars, dbVars>>

NextBurndown == Fold \/ ProjectBurndown

SpecBurndown == InitBurndown /\ [][NextBurndown]_vars

----------------------------------------------------------------------------
(* Properties of SpecBurndown *)

\* poles/week of the two pools of a project
BackOfficeCapacity(pm) == Cardinality(pm.back_office_users) * BACK_OFFICE_RATE

FieldCapacity(pm) == Cardinality(pm.field_users) * FIELD_RATE

Bottleneck(pm) ==
    IF BackOfficeCapacity(pm) <= FieldCapacity(pm)
    THEN BackOfficeCapacity(pm) ELSE FieldCapacity(pm)

\* C5: after a job is folded with days_elapsed > 0, the run_rate of its
\* utility and of its project is the smaller of the project's back-office
\* and field capacities, not their sum; calculate_project_burndown divides
\* the remaining poles by the same bottleneck
C5_RunRateBottleneck ==
    /\ (days_elapsed > 0 /\ bd_last # <<>>) =>
          LET pm == project_metrics[bd_last.project]
          IN  /\ pm.run_rate = Bottleneck(pm)
              /\ utility_metrics[bd_last.utility].run_rate = Bottleneck(pm)
              /\ (BackOfficeCapacity(pm) > 0 /\ FieldCapacity(pm) > 0) =>
                     pm.run_rate # BackOfficeCapacity(pm) + FieldCapacity(pm)
    /\ (/\ pc = "reported" /\ out.project \in DOMAIN project_metrics
        /\ out.status \notin {"Unknown", "Not Started"}) =>
          LET pm == project_metrics[out.project]
          IN  out.estimated_completion =
                  IF Bottleneck(pm) > 0
                  THEN << [now |-> now,
                           remaining |-> pm.total_poles - pm.completed_poles,
                           run_rate |-> Bottleneck(pm)] >>
                  ELSE <<>>

\* two back-office users and one field user: 80 poles/week, not 280
C5_Witness ==
    /\ days_elapsed > 0 /\ bd_last # <<>>
    /\ Cardinality(project_metrics[bd_last.project].back_office_users) = 2
    /\ Cardinality(project_metrics[bd_last.project].field_users) = 1
    /\ project_metrics[bd_last.project].run_rate = 80
    /\ utility_metrics[bd_last.utility].run_rate = 80

EstimateAsClaimed(m) ==
    IF m.run_rate = 0 THEN m.estimated_completion = <<>>
    ELSE /\ m.estimated_completion # <<>>
         /\ m.estimated_completion[1].remaining = m.total_poles - m.completed_poles
         /\ m.estimated_completion[1].run_rate = m.run_rate
         /\ m.estimated_completion[1].now <= now

\* C6: every UtilityMetrics and ProjectMetrics whose run_rate is 0 has a
\* null estimated_completion, and every one whose run_rate is positive has
\* now + (total_poles - completed_poles) / run_rate from its current totals
C6_UnknownCompletion ==
    /\ \A u \in DOMAIN utility_metrics : EstimateAsClaimed(utility_metrics[u])
    /\ \A p \in DOMAIN project_metrics : EstimateAsClaimed(project_metrics[p])

----------------------------------------------------------------------------
(* The metrics store: record_job_metrics called for one job after another  *)

MaxCalls == 3

MaxDay == 1

\* the timestamps of the calls, in hours: the first two hours of each day
Times == {d * HoursPerDay + h : d \in 0..MaxDay, h \in 0..1}

Photo(editor, association) ==
    [editor |-> editor, association |-> association,
     data_association |-> association]

\* a pole whose main photo was edited by editor
EditedPole(id, editor) ==
    [Pole(id, "U1", FALSE) EXCEPT
        !.field_completed = TRUE, !.photos = <<Photo(editor, "main")>>]

StoreJob(id, st, osp, ns) ==
    [id |-> id, shape |-> "ok", status |-> st, job_status |-> st,
     project |-> "P1", assigned_OSP |-> osp, utility |-> None,
     start_date |-> <<>>, end_date |-> <<>>, nodes |-> ns]

StoreJobs ==
    {StoreJob("j1", st, "u1", <<EditedPole("n1", "u1")>>) :
        st \in {"Sent to PE", "Delivered"}}
    \cup {StoreJob("j2", "Delivered", None, <<Pole("n1", None, FALSE)>>)}

InitStore ==
    /\ pc = "store"
    /\ inp = <<>>
    /\ out = <<>>
    /\ days_elapsed = 7
    /\ NoBurndown
    /\ NoStore

\* recorder.record_job_metrics(job_data, timestamp)
RecordJobMetrics ==
    /\ pc = "store" /\ st_last.n < MaxCalls
    /\ \E job \in StoreJobs, ts \in Times :
          /\ SetDB(RecordJobMetricsDB(DB, job, ts))
          /\ st_last' = [n |-> st_last.n + 1, job |-> job, timestamp |-> ts]
    /\ UNCHANGED <<pc, inp, out, bdVars, user_daily_summary, burndown_metrics,
                   writers>>

\* recorder.update_daily_summary(timestamp) at the end of a run
DailySummary ==
    /\ pc = "store" /\ st_last.n > 0
    /\ UpdateDailySummary(st_last.timestamp)
    /\ pc' = "summarised"
    /\ UNCHANGED <<inp, out, bdVars, burndown_metrics, st_last, writers>>

NextStore == RecordJobMetrics \/ DailySummary

SpecStore == InitStore /\ [][NextStore]_vars

----------------------------------------------------------------------------
(* Properties of SpecStore *)

\* the step is a record_job_metrics call
IsCall == st_last'.n = st_last.n + 1

\* the step repeats the previous call: same snapshot, same timestamp
IsReplay ==
    /\ IsCall /\ st_last.n > 0
    /\ st_last'.job = st_last.job
    /\ st_last'.timestamp = st_last.timestamp

\* C1: a second record_job_metrics call with the identical snapshot and the
\* same timestamp leaves job_metrics, pole_metrics, daily_snapshots,
\* status_changes and user_metrics with the rows they had after the first
\* call, and the per-user daily totals derived from user_metrics unchanged
C1_IdempotentReplay ==
    [][IsReplay =>
          /\ job_metrics' = job_metrics
          /\ pole_metrics' = pole_metrics
          /\ daily_snapshots' = daily_snapshots
          /\ status_changes' = status_changes
          /\ user_metrics' = user_metrics
          /\ DailySummaryRows(user_metrics', DateOf(st_last.timestamp)) =
                 DailySummaryRows(user_metrics, DateOf(st_last.timestamp))]_vars

\* C2: a call at T1 for a job whose newest stored job_metrics row has status
\* S0 at T0 < T1 writes exactly one status_changes row (previous S0, new S1,
\* changed_at T1, duration T1 - T0) when the snapshot's status S1 differs
\* from S0, and writes no status_changes row when S1 equals S0
C2_StatusChangeDetection ==
    [][(/\ IsCall
        /\ NewestJobMetrics(job_metrics, st_last'.job.id) # <<>>
        /\ NewestJobMetrics(job_metrics, st_last'.job.id)[1].timestamp
               < st_last'.timestamp) =>
          LET job  == st_last'.job
              T1   == st_last'.timestamp
              prev == NewestJobMetrics(job_metrics, job.id)[1]
              row  == [job_id |-> job.id,
                       previous_status |-> prev.status,
                       new_status |-> job.job_status,
                       changed_at |-> T1,
                       changed_by |-> job.assigned_OSP,
                       duration_hours |-> <<T1 - prev.timestamp>>]
          IN  IF job.job_status # prev.status
              THEN status_changes' = Insert(status_changes, row)
              ELSE status_changes' = status_changes]_vars

C27_DurationNotNegative ==
    \A r \in BagToSet(status_changes) :
       r.duration_hours = <<>> \/ r.duration_hours[1] >= 0

----------------------------------------------------------------------------
(* Two record_job_metrics executions for one job id, on two connections:   *)
(* every statement commits on its own, so the executions interleave        *)
(* between statements                                                      *)

Statuses == {"Sent to PE", "Delivered"}

ConcJob(st) == StoreJob("j1", st, "u1", <<EditedPole("n1", "u1")>>)

EmptyDB ==
    [job_metrics |-> EmptyBag, daily_snapshots |-> EmptyBag,
     status_changes |-> EmptyBag, pole_metrics |-> EmptyBag,
     user_metrics |-> EmptyBag]

\* the store before the two executions: empty, or holding one earlier call
EarlierStores ==
    {EmptyDB} \cup {RecordJobMetricsDB(EmptyDB, ConcJob(st), 0) : st \in Statuses}

Writer(st, ts) ==
    [job |-> ConcJob(st), timestamp |-> ts, pc |-> "snapshot", result |-> <<>>]

InitConc ==
    /\ pc = "writers"
    /\ inp \in EarlierStores
    /\ out = <<>>
    /\ days_elapsed = 7
    /\ NoBurndown
    /\ job_metrics = inp.job_metrics
    /\ daily_snapshots = inp.daily_snapshots
    /\ status_changes = inp.status_changes
    /\ pole_metrics = inp.pole_metrics
    /\ user_metrics = inp.user_metrics
    /\ user_daily_summary = EmptyBag
    /\ burndown_metrics = EmptyBag
    /\ st_last = [n |-> 0]
    /\ writers \in {<<Writer(a, t[1]), Writer(b, t[2])>> :
                       a \in Statuses, b \in Statuses,
                       t \in {<<1, 2>>, <<2, 1>>, <<1, 1 + HoursPerDay>>}}

\* writer w moves from one statement to the next
Goto(w, to) == writers' = [writers EXCEPT ![w].pc = to]

concRest ==
    <<pc, inp, out, bdVars, user_daily_summary, burndown_metrics, st_last>>

WriterSnapshot(w) ==
    /\ writers[w].pc = "snapshot"
    /\ SetDB(CreateDailySnapshot(DB, writers[w].job, writers[w].timestamp))
    /\ Goto(w, "insert")
    /\ UNCHANGED concRest

WriterInsert(w) ==
    /\ writers[w].pc = "insert"
    /\ SetDB(InsertJobMetrics(DB, writers[w].job, writers[w].timestamp))
    /\ Goto(w, "read")
    /\ UNCHANGED concRest

\* the SELECT of _check_status_changes
WriterRead(w) ==
    /\ writers[w].pc = "read"
    /\ writers' = [writers EXCEPT
                      ![w].pc = "write",
                      ![w].result =
                          NewestJobMetrics(job_metrics, writers[w].job.id)]
    /\ UNCHANGED <<job_metrics, daily_snapshots, status_changes, pole_metrics,
                   user_metrics>>
    /\ UNCHANGED concRest

\* the rest of _check_status_changes
WriterWrite(w) ==
    /\ writers[w].pc = "write"
    /\ SetDB(WriteStatusChange(DB, writers[w].job, writers[w].timestamp,
                               writers[w].result))
    /\ Goto(w, "poles")
    /\ UNCHANGED concRest

WriterPoles(w) ==
    /\ writers[w].pc = "poles"
    /\ SetDB(RecordPoleMetrics(DB, writers[w].job, writers[w].timestamp))
    /\ Goto(w, "users")
    /\ UNCHANGED concRest

WriterUsers(w) ==
    /\ writers[w].pc = "users"
    /\ SetDB(RecordUserMetrics(DB, writers[w].job, writers[w].timestamp))
    /\ Goto(w, "done")
    /\ UNCHANGED concRest

NextConc ==
    \E w \in 1..2 :
        \/ WriterSnapshot(w)
        \/ WriterInsert(w)
        \/ WriterRead(w)
        \/ WriterWrite(w)
        \/ WriterPoles(w)
        \/ WriterUsers(w)

SpecConc == InitConc /\ [][NextConc]_vars

----------------------------------------------------------------------------
(* Properties of SpecConc *)

WritersDone == \A w \in 1..2 : writers[w].pc = "done"

\* the status_changes table after the two calls ran one after the other
SerialStatusChanges(first, second) ==
    RecordJobMetricsDB(
        RecordJobMetricsDB(inp, writers[first].job, writers[first].timestamp),
        writers[second].job, writers[second].timestamp).status_changes

\* the status of the job_metrics row of the job that immediately precedes ts
\* in timestamp order, None when there is none
PrecedingStatus(job_id, ts) ==
    LET rows == {r \in BagToSet(job_metrics) :
                    r.job_id = job_id /\ r.timestamp < ts}
    IN  IF rows = {} THEN None
        ELSE (CHOOSE r \in rows :
                  \A q \in rows : q.timestamp <= r.timestamp).status

\* the status_changes rows the two executions wrote
WrittenChanges ==
    {r \in BagToSet(status_changes) :
        \E w \in 1..2 : r.changed_at = writers[w].timestamp}

\* the rows are those of one of the two serial orders
Serializable ==
    WritersDone =>
        \/ status_changes = SerialStatusChanges(1, 2)
        \/ status_changes = SerialStatusChanges(2, 1)

\* C4: when both executions have finished, the status_changes rows equal
\* those of some serial execution of the two calls, and each row's
\* previous_status is the status of the job_metrics row immediately
\* preceding it in timestamp order
C4_ConcurrentWriters ==
    WritersDone =>
        /\ \/ status_changes = SerialStatusChanges(1, 2)
           \/ status_changes = SerialStatusChanges(2, 1)
        /\ \A r \in WrittenChanges :
               r.previous_status = PrecedingStatus(r.job_id, r.changed_at)
----------------------------------------------------------------------------
(* Two reporting runs over the same two jobs, in the two orders: the first *)
(* calculator's totals are kept in out, the second run starts from a new   *)
(* BurndownCalculator                                                      *)

\* the pole counts of every bucket and the user sets of every project
Totals ==
    [utility |-> [u \in DOMAIN utility_metrics |->
                     [total_poles |-> utility_metrics[u].total_poles,
                      completed_poles |-> utility_metrics[u].completed_poles]],
     project |-> [p \in DOMAIN project_metrics |->
                     [total_poles |-> project_metrics[p].total_poles,
                      completed_poles |-> project_metrics[p].completed_poles,
                      back_office_users |-> project_metrics[p].back_office_users,
                      field_users |-> project_metrics[p].field_users]],
     status |-> status_metrics]

InitCommute ==
    /\ pc = "in order"
    /\ inp \in BurndownJobs \X BurndownJobs
    /\ out = <<>>
    /\ days_elapsed \in {0, 7}
    /\ NoBurndown
    /\ NoStore

\* first run: update_job_metrics(A), then update_job_metrics(B)
FoldInOrder ==
    /\ pc = "in order" /\ now < 2
    /\ UpdateJobMetrics(inp[now + 1], now)
    /\ now' = now + 1
    /\ UNCHANGED <<pc, inp, out, days_elapsed, dbVars>>

\* the second run constructs its own BurndownCalculator
NewCalculator ==
    /\ pc = "in order" /\ now = 2
    /\ out' = Totals
    /\ utility_metrics' = EmptyDict
    /\ project_metrics' = EmptyDict
    /\ status_metrics' = EmptyDict
    /\ weekly_completion_rates' = EmptyDict
    /\ node_processing_stats' = NewNodeStats
    /\ now' = 0
    /\ bd_last' = <<>>
    /\ pc' = "swapped"
    /\ UNCHANGED <<inp, days_elapsed, dbVars>>

\* second run: update_job_metrics(B), then update_job_metrics(A)
FoldSwapped ==
    /\ pc = "swapped" /\ now < 2
    /\ UpdateJobMetrics(inp[2 - now], now)
    /\ now' = now + 1
    /\ UNCHANGED <<pc, inp, out, days_elapsed, dbVars>>

NextCommute == FoldInOrder \/ NewCalculator \/ FoldSwapped

SpecCommute == InitCommute /\ [][NextCommute]_vars

----------------------------------------------------------------------------
(* Properties of SpecCommute *)

\* C12: folding A then B gives the same total_poles and completed_poles in
\* every utility, project and status bucket, and the same project user
\* sets, as folding B then A
C12_AggregationCommutes ==
    (pc = "swapped" /\ now = 2) => Totals = out

\* two different jobs of one project, both with poles, assigned to different
\* users of the same pool
C12_Witness ==
    /\ pc = "swapped" /\ now = 2
    /\ inp[1].shape = "ok" /\ inp[2].shape = "ok"
    /\ inp[1].project = inp[2].project
    /\ inp[1].status = inp[2].status
    /\ inp[1].assigned_OSP # inp[2].assigned_OSP
    /\ Cardinality(out.project[inp[1].project].back_office_users) = 2
    /\ out.project[inp[1].project].total_poles = 4
    /\ Totals = out
----------------------------------------------------------------------------
(* The job loops of main() and run_weekly_report()                         *)
(* A job of the list is one of                                             *)
(*   "ok"             getJobData returns a body that is processed          *)
(*   "no_data"        getJobData returns None                              *)
(*   "metadata_list"  the body has nodes and a list under 'metadata':      *)
(*                    metadata.get raises AttributeError in extractNodes   *)
(*                    (outside its per-node try) and in run_weekly_report  *)

MaxJobs == 3

JobKinds == {"ok", "no_data", "metadata_list"}

JobLists == UNION {[1..n -> JobKinds] : n \in 1..MaxJobs}

InitRun ==
    /\ pc \in {"main", "weekly"}
    /\ inp \in JobLists
    /\ out = [index |-> 1, processed |-> <<>>, failed |-> 0, saved |-> <<>>]
    /\ days_elapsed = 7
    /\ NoBurndown
    /\ NoStore

\* one iteration of main()'s loop: no handler encloses the processing, so
\* an exception leaves main() and nothing is saved
MainProcessJob ==
    /\ pc = "main" /\ out.index <= Len(inp)
    /\ LET kind == inp[out.index]
       IN  \/ /\ kind = "ok"
              /\ out' = [out EXCEPT !.index = @ + 1,
                                    !.processed = Append(@, out.index)]
              /\ pc' = pc
           \/ /\ kind = "no_data"
              /\ out' = [out EXCEPT !.index = @ + 1]
              /\ pc' = pc
           \/ /\ kind = "metadata_list"
              /\ out' = out
              /\ pc' = "raised"
    /\ UNCHANGED <<inp, bdVars, dbVars>>

\* after the loop: saveMasterGeoPackage, saveToShapefiles, create_report
MainSave ==
    /\ pc = "main" /\ out.index > Len(inp)
    /\ out' = [out EXCEPT !.saved = out.processed]
    /\ pc' = "saved"
    /\ UNCHANGED <<inp, bdVars, dbVars>>

\* one iteration of run_weekly_report's loop, inside its try/except
WeeklyProcessJob ==
    /\ pc = "weekly" /\ out.index <= Len(inp)
    /\ LET kind == inp[out.index]
       IN  \/ /\ kind = "ok"
              /\ out' = [out EXCEPT !.index = @ + 1,
                                    !.processed = Append(@, out.index)]
           \/ /\ kind \in {"no_data", "metadata_list"}
              /\ out' = [out EXCEPT !.index = @ + 1, !.failed = @ + 1]
    /\ UNCHANGED <<pc, inp, bdVars, dbVars>>

\* after the loop: WeeklyReportGenerator(metrics, end_date).generate_report
WeeklyGenerate ==
    /\ pc = "weekly" /\ out.index > Len(inp)
    /\ out' = [out EXCEPT !.saved = out.processed]
    /\ pc' = "reported"
    /\ UNCHANGED <<inp, bdVars, dbVars>>

NextRun == MainProcessJob \/ MainSave \/ WeeklyProcessJob \/ WeeklyGenerate

SpecRun == InitRun /\ [][NextRun]_vars

----------------------------------------------------------------------------
(* Properties of SpecRun *)

\* the jobs of the list whose fetch and processing succeed, in list order
GoodJobs == SelectSeq([i \in 1..Len(inp) |-> i], LAMBDA i : inp[i] = "ok")

\* C13: when a run of main() or run_weekly_report() is over, whether some
\* job's fetch returned None or its processing raised, every other job of
\* the list was processed and its results are in the run's output
C13_JobFailureNotFatal ==
    (pc \in {"saved", "reported", "raised"}) => out.saved = GoodJobs
----------------------------------------------------------------------------
(* getJobData(job_id): up to max_retries requests                          *)

max_retries == 5

\* what one request can come back with: an HTTP status and a body, or a
\* socket error (nothing received).  Bodies: "job" a job object, "rate_limit" the object
\* {"error": "RATE LIMIT EXCEEDED"}, "api_error" an object with another
\* "error", "other_json" a JSON object without "error", "undecodable"
Responses ==
    {[received |-> TRUE, status |-> 200, body |-> b] :
        b \in {"job", "rate_limit", "api_error", "undecodable"}}
    \cup {[received |-> TRUE, status |-> 404, body |-> b] :
              b \in {"api_error", "other_json"}}
    \cup {[received |-> TRUE, status |-> s, body |-> "api_error"] :
              s \in {429, 500}}
    \cup {[received |-> FALSE, status |-> 0, body |-> None]}

\* the attempt neither continues nor raises: getJobData returns its body
Returns(resp) ==
    /\ resp.received
    /\ resp.status # 429 /\ resp.status < 500
    /\ resp.body \in {"job", "other_json"}

InitFetch ==
    /\ pc = "fetching"
    /\ inp = <<>>
    /\ out = [attempt |-> 0, job_data |-> None, returned |-> None]
    /\ days_elapsed = 7
    /\ NoBurndown
    /\ NoStore

\* one iteration of the for loop; inp collects the responses received
Attempt ==
    /\ pc = "fetching" /\ out.attempt < max_retries
    /\ \E resp \in Responses :
          /\ inp' = Append(inp, resp)
          /\ IF Returns(resp)
             THEN /\ out' = [attempt |-> out.attempt + 1,
                             job_data |-> resp.body, returned |-> resp.body]
                  /\ pc' = "returned"
             ELSE /\ out' = [out EXCEPT
                                !.attempt = @ + 1,
                                !.job_data =
                                    IF resp.received
                                       /\ resp.status \in {200, 404}
                                       /\ resp.body # "undecodable"
                                    THEN resp.body ELSE @]
                  /\ pc' = pc
    /\ UNCHANGED <<bdVars, dbVars>>

\* after the loop: return None
GiveUp ==
    /\ pc = "fetching" /\ out.attempt >= max_retries
    /\ out' = [out EXCEPT !.returned = None]
    /\ pc' = "returned"
    /\ UNCHANGED <<inp, bdVars, dbVars>>

NextFetch == Attempt \/ GiveUp

SpecFetch == InitFetch /\ [][NextFetch]_vars

----------------------------------------------------------------------------
(* Properties of SpecFetch *)

\* an attempt that succeeded: HTTP success and a decodable body that is
\* not an API error
Succeeded(resp) == resp.received /\ resp.status = 200 /\ resp.body = "job"

\* C14: getJobData makes at most 5 requests; it returns None exactly when
\* every attempt failed (non-success status, rate limit, API error body,
\* undecodable body or socket error) and otherwise the body of the first
\* successful attempt
C14_BoundedRetries ==
    /\ Len(inp) <= 5
    /\ pc = "returned" =>
          IF \A i \in 1..Len(inp) : ~Succeeded(inp[i])
          THEN out.returned = None
          ELSE LET first == CHOOSE i \in 1..Len(inp) :
                                /\ Succeeded(inp[i])
                                /\ \A j \in 1..(i - 1) : ~Succeeded(inp[j])
               IN  out.returned = inp[first].body
----------------------------------------------------------------------------
(* The writers of table burndown_metrics.  A row has the columns of all    *)
(* four INSERT statements; a column a statement does not name is NULL:     *)
(* None for a text column, <<>> for a number or a date.                    *)
(* schema.sql is not part of the sources: inp.unique_utility_date tells    *)
(* whether the table has the UNIQUE (utility, date) constraint that the    *)
(* ON CONFLICT (utility, date) clause needs.                               *)

MaxWrites == 2

Utilities == {"U1"}

\* SUM(col) over the rows of a bag, <<>> (NULL) over no rows
RECURSIVE SumOf(_, _, _)
SumOf(table, rows, col) ==
    IF rows = {} THEN 0
    ELSE LET r == CHOOSE x \in rows : TRUE
         IN  table[r] * r[col] + SumOf(table, rows \ {r}, col)

\* COUNT(*) over the rows of a bag
RECURSIVE CountOf(_, _)
CountOf(table, rows) ==
    IF rows = {} THEN 0
    ELSE LET r == CHOOSE x \in rows : TRUE
         IN  table[r] + CountOf(table, rows \ {r})

BurndownRow(utility, date, entity_id, timestamp, total, completed) ==
    [utility |-> utility, date |-> date, entity_id |-> entity_id,
     timestamp |-> timestamp, total_poles |-> total,
     completed_poles |-> completed]

\* a plain INSERT: a unique violation when the constraint exists and a row
\* with the same non-NULL (utility, date) is stored
Conflicts(row) ==
    /\ inp.unique_utility_date
    /\ row.utility # None /\ row.date # <<>>
    /\ \E r \in BagToSet(burndown_metrics) :
          r.utility = row.utility /\ r.date = row.date

\* the statement ran: the table after it and what is reported in out
Written(table, row, raised) ==
    /\ burndown_metrics' = table
    /\ out' = [n |-> out.n + 1, row |-> row, raised |-> raised]

PlainInsert(row) ==
    IF Conflicts(row)
    THEN Written(burndown_metrics, <<row>>, TRUE)
    ELSE Written(Insert(burndown_metrics, row), <<row>>, FALSE)

\* metrics_recorder.MetricsRecorder.update_burndown_metrics(utility, ts):
\* INSERT ... SELECT ... FROM pole_metrics GROUP BY utility
\* ON CONFLICT (utility, date) DO UPDATE
RecorderUpdateBurndown(utility, ts) ==
    LET rows == {r \in BagToSet(pole_metrics) :
                    r.utility = utility /\ DateOf(r.timestamp) = DateOf(ts)}
        field == CountOf(pole_metrics, {r \in rows : r.field_completed})
        back  == CountOf(pole_metrics, {r \in rows : r.back_office_completed})
        row   == BurndownRow(utility, <<DateOf(ts)>>, None, <<>>,
                             <<CountOf(pole_metrics, rows)>>,
                             <<Min(field, back)>>)
    IN  IF ~inp.unique_utility_date
        THEN Written(burndown_metrics, IF rows = {} THEN <<>> ELSE <<row>>, TRUE)
        ELSE IF rows = {} THEN Written(burndown_metrics, <<>>, FALSE)
        ELSE Written(Upsert(burndown_metrics, row, {"utility", "date"}),
                     <<row>>, FALSE)

\* database.metrics_recorder.MetricsRecorder.update_burndown_metrics:
\* INSERT ... SELECT SUM(...) FROM job_metrics, no ON CONFLICT clause
StoreUpdateBurndown(utility, ts) ==
    LET rows == {r \in BagToSet(job_metrics) :
                    r.utility = utility /\ DateOf(r.timestamp) = DateOf(ts)}
        row  == BurndownRow(utility, <<DateOf(ts)>>, None, <<>>,
                    IF rows = {} THEN <<>>
                    ELSE <<SumOf(job_metrics, rows, "total_poles")>>,
                    IF rows = {} THEN <<>>
                    ELSE <<SumOf(job_metrics, rows, "completed_poles")>>)
    IN  PlainInsert(row)

\* database.db.update_burndown_metrics(utility, metrics_data):
\* INSERT ... VALUES (utility, NOW(), ...), no ON CONFLICT clause
DbUpdateBurndown(utility, metrics_data, ts) ==
    PlainInsert(BurndownRow(utility, <<DateOf(ts)>>, None, <<>>,
                            <<metrics_data.total_poles>>,
                            <<metrics_data.completed_poles>>))

\* ProjectSync.update_burndown_metrics for one project: the counts join
\* pole_metrics to job_metrics on metadata->>'project', a column no
\* recorder fills, so total_poles is 0; completed_poles is not among the
\* columns of INSERT ... VALUES ('project', project_id, ...,
\* CURRENT_TIMESTAMP), which has no ON CONFLICT clause
ProjectSyncUpdateBurndown(project_id, ts) ==
    PlainInsert(BurndownRow(None, <<>>, project_id, <<ts>>, <<0>>, <<>>))

InitLedger ==
    /\ pc = "burndown"
    /\ inp \in [unique_utility_date : BOOLEAN]
    /\ out = [n |-> 0, row |-> <<>>, raised |-> FALSE]
    /\ days_elapsed = 7
    /\ NoBurndown
    /\ \E db \in EarlierStores \ {EmptyDB} :
          /\ job_metrics = db.job_metrics
          /\ daily_snapshots = db.daily_snapshots
          /\ status_changes = db.status_changes
          /\ pole_metrics = db.pole_metrics
          /\ user_metrics = db.user_metrics
    /\ user_daily_summary = EmptyBag
    /\ burndown_metrics = EmptyBag
    /\ st_last = [n |-> 0]
    /\ writers = <<>>

ledgerRest ==
    <<pc, inp, bdVars, job_metrics, daily_snapshots, status_changes,
      pole_metrics, user_metrics, user_daily_summary, st_last, writers>>

\* a later snapshot of a job is recorded between two burndown writes
RecordBetween ==
    /\ pc = "burndown" /\ st_last.n < 1
    /\ \E job \in StoreJobs, ts \in Times :
          /\ SetDB(RecordJobMetricsDB(DB, job, ts))
          /\ st_last' = [n |-> st_last.n + 1, job |-> job, timestamp |-> ts]
    /\ UNCHANGED <<pc, inp, out, bdVars, user_daily_summary, burndown_metrics,
                   writers>>

RecorderWrite ==
    /\ pc = "burndown" /\ out.n < MaxWrites
    /\ \E u \in Utilities, ts \in Times : RecorderUpdateBurndown(u, ts)
    /\ UNCHANGED ledgerRest

StoreWrite ==
    /\ pc = "burndown" /\ out.n < MaxWrites
    /\ \E u \in Utilities, ts \in Times : StoreUpdateBurndown(u, ts)
    /\ UNCHANGED ledgerRest

DbWrite ==
    /\ pc = "burndown" /\ out.n < MaxWrites
    /\ \E u \in Utilities, ts \in Times, total \in 1..2 :
          DbUpdateBurndown(u, [total_poles |-> total, completed_poles |-> 1], ts)
    /\ UNCHANGED ledgerRest

ProjectSyncWrite ==
    /\ pc = "burndown" /\ out.n < MaxWrites
    /\ \E p \in Projects, ts \in Times : ProjectSyncUpdateBurndown(p, ts)
    /\ UNCHANGED ledgerRest

NextLedger ==
    RecordBetween \/ RecorderWrite \/ StoreWrite \/ DbWrite \/ ProjectSyncWrite

SpecLedger == InitLedger /\ [][NextLedger]_vars

----------------------------------------------------------------------------
(* Properties of SpecLedger *)

\* the (utility or project, date) a burndown_metrics row is about
EntityDate(r) ==
    IF r.utility # None THEN <<r.utility, r.date[1]>>
    ELSE <<r.entity_id, DateOf(r.timestamp[1])>>

\* C15: after any sequence of burndown writes burndown_metrics holds at
\* most one row per (utility or project, date), and the row of the key of
\* the last write holds the values of that write
C15_BurndownRecordUnique ==
    /\ \A r \in BagToSet(burndown_metrics) :
          /\ burndown_metrics[r] = 1
          /\ \A q \in BagToSet(burndown_metrics) :
                 EntityDate(q) = EntityDate(r) => q = r
    /\ out.row # <<>> => out.row[1] \in BagToSet(burndown_metrics)
----------------------------------------------------------------------------
(* record_job_metrics when one of its steps raises.  Every persistence     *)
(* step runs in its own get_cursor block, which commits when the block     *)
(* ends and rolls back when it raises; record_job_metrics wraps every step *)
(* in a try/except that logs.  inp names the step that raises: "job_id"    *)
(* is the ValueError raised before the first step, "none" is no failure.   *)

MaxFailingCalls == 2

PersistenceSteps == {"snapshot", "job_metrics", "status_change", "poles", "users"}

Failures == PersistenceSteps \cup {"job_id", "none"}

\* one step of record_job_metrics; a step that raises leaves the store as
\* its get_cursor block found it
StepDB(step, db, job, ts, fails) ==
    IF fails = step THEN db
    ELSE CASE step = "snapshot"      -> CreateDailySnapshot(db, job, ts)
           [] step = "job_metrics"   -> InsertJobMetrics(db, job, ts)
           [] step = "status_change" -> CheckStatusChanges(db, job, ts)
           [] step = "poles"         -> RecordPoleMetrics(db, job, ts)
           [] step = "users"         -> RecordUserMetrics(db, job, ts)

\* the store after record_job_metrics(job, ts) in which step fails raises
RecordJobMetricsFailing(db, job, ts, fails) ==
    IF fails = "job_id" THEN db
    ELSE StepDB("users",
           StepDB("poles",
             StepDB("status_change",
               StepDB("job_metrics",
                 StepDB("snapshot", db, job, ts, fails),
                 job, ts, fails),
               job, ts, fails),
             job, ts, fails),
           job, ts, fails)

\* does record_job_metrics raise to its caller: only what is raised outside
\* the steps' try blocks reaches the outer except, which re-raises
RaisedToCaller(fails) == fails = "job_id"

InitFailure ==
    /\ pc = "recording"
    /\ inp = "none"
    /\ out = [raised |-> FALSE, before |-> EmptyDB]
    /\ days_elapsed = 7
    /\ NoBurndown
    /\ NoStore

\* recorder.record_job_metrics(job_data, timestamp), one step raising
RecordFailing ==
    /\ pc = "recording" /\ st_last.n < MaxFailingCalls
    /\ \E job \in StoreJobs, ts \in Times, fails \in Failures :
          /\ inp' = fails
          /\ out' = [raised |-> RaisedToCaller(fails), before |-> DB]
          /\ SetDB(RecordJobMetricsFailing(DB, job, ts, fails))
          /\ st_last' = [n |-> st_last.n + 1, job |-> job, timestamp |-> ts]
    /\ UNCHANGED <<pc, bdVars, user_daily_summary, burndown_metrics, writers>>

NextFailure == RecordFailing

SpecFailure == InitFailure /\ [][NextFailure]_vars

----------------------------------------------------------------------------
(* Properties of SpecFailure *)

\* C16: when a persistence step of record_job_metrics fails, the failure
\* is raised to the caller and the store is as it was before the call
C16_FailureAtomicity ==
    inp \in PersistenceSteps => out.raised /\ DB = out.before
----------------------------------------------------------------------------
(* cleanup_duplicates on tables filled by plain INSERTs, before            *)
(* apply_constraints added the unique keys.  created_at is filled by the   *)
(* table's default, the time of the INSERT; the clock is now.              *)

MaxRows == 4

\* rows with the same values in the columns of key
SameKey(r, q, key) == \A c \in key : r[c] = q[c]

\* SELECT DISTINCT ON (key) * ... ORDER BY key, created_at ASC
DistinctOnOldest(table, key) ==
    LET rows == BagToSet(table)
    IN  {SetToBag(kept) : kept \in
           {c \in SUBSET rows :
              /\ \A r \in c : \A q \in rows :
                    SameKey(r, q, key) => q.created_at >= r.created_at
              /\ \A r \in rows :
                    Cardinality({q \in c : SameKey(r, q, key)}) = 1}}

\* SELECT DISTINCT ON (key) * FROM table ORDER BY key, created_at DESC:
\* the first row of every group of equal keys, which the order leaves open
\* among rows of equal created_at; the results the statement can give
DistinctOn(table, key) ==
    LET rows == BagToSet(table)
    IN  {SetToBag(kept) : kept \in
           {c \in SUBSET rows :
              /\ \A r \in c : \A q \in rows :
                    SameKey(r, q, key) => q.created_at <= r.created_at
              /\ \A r \in rows :
                    Cardinality({q \in c : SameKey(r, q, key)}) = 1}}

InitCleanup ==
    /\ pc = "recording"
    /\ inp = <<>>
    /\ out = [rows |-> 0, runs |-> 0]
    /\ days_elapsed = 7
    /\ NoBurndown
    /\ NoStore

cleanupRest ==
    <<inp, utility_metrics, project_metrics, status_metrics,
      weekly_completion_rates, node_processing_stats, days_elapsed,
      bd_last, daily_snapshots, status_changes, user_metrics,
      user_daily_summary, burndown_metrics, st_last, writers>>

\* MetricsRecorder.record_job_metrics of metrics_recorder.py: a plain
\* INSERT INTO job_metrics
InsertJobRow ==
    /\ pc = "recording" /\ out.rows < MaxRows
    /\ \E status \in {"Pending Field Collection", "Delivered"},
          ts \in 0..1, created_at \in {now, now + 1} :
          /\ job_metrics' = Insert(job_metrics,
                 [job_id |-> "J1", status |-> status, timestamp |-> ts,
                  created_at |-> created_at])
          /\ now' = created_at
    /\ out' = [out EXCEPT !.rows = @ + 1]
    /\ UNCHANGED <<pc, pole_metrics, cleanupRest>>

\* MetricsRecorder.record_pole_metrics of metrics_recorder.py: a plain
\* INSERT INTO pole_metrics
InsertPoleRow ==
    /\ pc = "recording" /\ out.rows < MaxRows
    /\ \E node_id \in {"n1", "n2"}, done \in BOOLEAN,
          created_at \in {now, now + 1} :
          /\ pole_metrics' = Insert(pole_metrics,
                 [job_id |-> "J1", node_id |-> node_id, timestamp |-> 0,
                  field_completed |-> done, created_at |-> created_at])
          /\ now' = created_at
    /\ out' = [out EXCEPT !.rows = @ + 1]
    /\ UNCHANGED <<pc, job_metrics, cleanupRest>>

\* cleanup_duplicates(): both tables are replaced by their DISTINCT ON
\* selection in one transaction
CleanupDuplicates ==
    /\ out.runs < 2
    /\ job_metrics' \in DistinctOn(job_metrics, JobTimestamp)
    /\ pole_metrics' \in DistinctOn(pole_metrics, JobNodeTimestamp)
    /\ pc' = "cleaned"
    /\ out' = [rows |-> out.rows, runs |-> out.runs + 1,
               original |-> IF out.runs = 0
                            THEN [job_metrics |-> job_metrics,
                                  pole_metrics |-> pole_metrics]
                            ELSE out.original,
               before |-> [job_metrics |-> job_metrics,
                           pole_metrics |-> pole_metrics]]
    /\ UNCHANGED <<now, cleanupRest>>

NextCleanup == InsertJobRow \/ InsertPoleRow \/ CleanupDuplicates

SpecCleanup == InitCleanup /\ [][NextCleanup]_vars

----------------------------------------------------------------------------
(* Properties of SpecCleanup *)

\* table holds one row per key, each a newest row of its key in original,
\* and every key of original is still there
Repaired(table, original, key) ==
    /\ \A r \in BagToSet(table) :
          /\ table[r] = 1
          /\ \A q \in BagToSet(table) : SameKey(r, q, key) => q = r
          /\ r \in BagToSet(original)
          /\ \A o \in BagToSet(original) :
                SameKey(r, o, key) => o.created_at <= r.created_at
    /\ \A o \in BagToSet(original) :
          /\ \E r \in BagToSet(table) : SameKey(r, o, key)
          /\ (original[o] = 1 /\ \A q \in BagToSet(original) :
                                    SameKey(o, q, key) => q = o)
                => o \in BagToSet(table)

\* C17: after cleanup_duplicates job_metrics has exactly one row per
\* (job_id, timestamp) and pole_metrics one per (job_id, node_id,
\* timestamp), the survivor of a key has the greatest created_at of the
\* key's rows, rows of unique keys are unchanged, and a second run
\* changes nothing
C17_DeduplicationRepair ==
    out.runs >= 1 =>
       /\ Repaired(job_metrics, out.original.job_metrics, JobTimestamp)
       /\ Repaired(pole_metrics, out.original.pole_metrics, JobNodeTimestamp)
       /\ out.runs = 2 => /\ job_metrics = out.before.job_metrics
                          /\ pole_metrics = out.before.pole_metrics

\* a second run over tables whose first run dropped an older job row of
\* another status and a duplicate pole row
C17_Witness ==
    /\ out.runs = 2
    /\ \E r, q \in BagToSet(out.original.job_metrics) :
          /\ SameKey(r, q, JobTimestamp)
          /\ r.created_at < q.created_at /\ r.status # q.status
          /\ q \in BagToSet(job_metrics) /\ r \notin BagToSet(job_metrics)
    /\ BagCardinality(out.original.pole_metrics) > BagCardinality(pole_metrics)
----------------------------------------------------------------------------
(* Editor attribution.  A node's photos and a photo's _editors map are     *)
(* sequences in iteration order; an entry of _editors is <<editor_id,      *)
(* edit_time>>.                                                            *)

MaxPhotos == 2

EditorIds == {"u1", "u2", "u3"}

EditTimes == 1..2

user_map == [u1 |-> "Ann", u2 |-> "Bob"]

\* user_map.get(editor_id, "Unknown User")
EditorName(editor_id) ==
    IF editor_id \in DOMAIN user_map THEN user_map[editor_id]
    ELSE "Unknown User"

\* the _editors maps: no editor_id twice
EditorMaps ==
    {<<>>} \cup {<<<<e, t>>>> : e \in EditorIds, t \in EditTimes}
           \cup {m \in {<<<<e, t>>, <<f, u>>>> :
                           e \in EditorIds, t \in EditTimes,
                           f \in EditorIds, u \in EditTimes} :
                    m[1][1] # m[2][1]}

EditorPhotos == [association : {"main", "note"}, editors : EditorMaps]

PhotoLists == UNION {[1..n -> EditorPhotos] : n \in 0..MaxPhotos}

\* extractNodes: editors_history after one (editor_id, edit_time) item; an
\* updated key keeps its place in the dict
RECURSIVE NoteEdit(_, _, _, _)
NoteEdit(history, name, edit_time, i) ==
    IF i > Len(history)
    THEN Append(history, [editor |-> name, raw_timestamp |-> edit_time])
    ELSE IF history[i].editor = name
    THEN IF edit_time > history[i].raw_timestamp
         THEN [history EXCEPT ![i].raw_timestamp = edit_time]
         ELSE history
    ELSE NoteEdit(history, name, edit_time, i + 1)

\* extractNodes: editors_history after the items k.. of photo i and the
\* photos after it
RECURSIVE EditorsHistory(_, _, _, _)
EditorsHistory(photos, i, k, history) ==
    IF i > Len(photos) THEN history
    ELSE IF k > Len(photos[i].editors)
    THEN EditorsHistory(photos, i + 1, 1, history)
    ELSE EditorsHistory(photos, i, k + 1,
            NoteEdit(history, EditorName(photos[i].editors[k][1]),
                     photos[i].editors[k][2], 1))

\* the first item of a list with the greatest key: what a stable
\* descending sort puts first, and what max(..., key=...) returns
FirstLatest(items, key) ==
    LET best == CHOOSE i \in 1..Len(items) :
                   /\ \A j \in 1..Len(items) : items[j][key] <= items[i][key]
                   /\ \A j \in 1..(i - 1) : items[j][key] < items[i][key]
    IN  items[best]

\* extractNodes: last_editor of a node
LastEditor(photos) ==
    LET editors_list == EditorsHistory(photos, 1, 1, <<>>)
    IN  IF editors_list = <<>> THEN "Unknown"
        ELSE FirstLatest(editors_list, "raw_timestamp").editor

\* MetricsRecorder._get_editor_info over the photos i.. of a node
RECURSIVE GetEditorInfo(_, _, _)
GetEditorInfo(photos, i, editor_info) ==
    IF i > Len(photos) THEN editor_info
    ELSE IF photos[i].editors = <<>>
    THEN GetEditorInfo(photos, i + 1, editor_info)
    ELSE LET editor_id == FirstLatest(photos[i].editors, 2)[1]
         IN  IF photos[i].association = "main"
             THEN GetEditorInfo(photos, i + 1,
                     [editor_info EXCEPT !.field_completed_by = editor_id])
             ELSE GetEditorInfo(photos, i + 1,
                     [editor_info EXCEPT !.annotated_by = editor_id])

NoEditorInfo == [field_completed_by |-> None, annotated_by |-> None]

InitEditors ==
    /\ pc = "start"
    /\ inp \in PhotoLists
    /\ out = <<>>
    /\ days_elapsed = 7
    /\ NoBurndown
    /\ NoStore

\* extractNodes on a node with the photos inp
ExtractLastEditor ==
    /\ pc = "start"
    /\ out' = [op |-> "extractNodes", last_editor |-> LastEditor(inp)]
    /\ pc' = "done"
    /\ UNCHANGED <<inp, bdVars, dbVars>>

\* _get_editor_info on a node with the photos inp
PersistEditorInfo ==
    /\ pc = "start"
    /\ out' = [op |-> "_get_editor_info",
               editor_info |-> GetEditorInfo(inp, 1, NoEditorInfo)]
    /\ pc' = "done"
    /\ UNCHANGED <<inp, bdVars, dbVars>>

NextEditors == ExtractLastEditor \/ PersistEditorInfo

SpecEditors == InitEditors /\ [][NextEditors]_vars

----------------------------------------------------------------------------
(* Properties of SpecEditors *)

\* the edits <<photo, item>> of the photos of one of the associations
EditsOf(photos, associations) ==
    {e \in (1..Len(photos)) \X (1..2) :
        /\ e[2] <= Len(photos[e[1]].editors)
        /\ photos[e[1]].association \in associations}

\* the editor ids of the edits with the greatest edit_time
LatestEditors(photos, associations) ==
    {photos[e[1]].editors[e[2]][1] : e \in
        {e \in EditsOf(photos, associations) :
            \A f \in EditsOf(photos, associations) :
               photos[f[1]].editors[f[2]][2] <= photos[e[1]].editors[e[2]][2]}}

\* the photos in the opposite iteration order, each _editors map too
OtherOrder(photos) ==
    Reversed([i \in 1..Len(photos) |->
                 [photos[i] EXCEPT !.editors = Reversed(@)]])

\* an editor field is the editor of a latest edit, None without edits
IsLatest(editor_id, photos, associations) ==
    IF EditsOf(photos, associations) = {} THEN editor_id = None
    ELSE editor_id \in LatestEditors(photos, associations)

\* C18: the last_editor of extractNodes and the editors of
\* _get_editor_info are those of the edit with the greatest timestamp over
\* all of the node's photos, the same for every iteration order of the
\* photos and of the editor maps
C18_EditorAttribution ==
    pc = "done" =>
       /\ out.op = "extractNodes" =>
             /\ out.last_editor = LastEditor(OtherOrder(inp))
             /\ IF EditsOf(inp, {"main", "note"}) = {}
                THEN out.last_editor = "Unknown"
                ELSE out.last_editor \in
                        {EditorName(e) : e \in LatestEditors(inp, {"main", "note"})}
       /\ out.op = "_get_editor_info" =>
             /\ out.editor_info = GetEditorInfo(OtherOrder(inp), 1, NoEditorInfo)
             /\ IsLatest(out.editor_info.field_completed_by, inp, {"main"})
             /\ IsLatest(out.editor_info.annotated_by, inp, {"note"})
----------------------------------------------------------------------------
(* extractConnections(connections, nodes) over a whole connections dict:   *)
(* inp.connections in iteration order, the connection_id of an entry its   *)
(* position; inp.nodes maps node ids to their coordinates.                 *)

MaxConnections == 3

\* the nodes dicts: n1 is complete, n2 may lack a coordinate
NodeSets ==
    {[n1 |-> [latitude |-> "40.1", longitude |-> "-105.1"],
      n2 |-> [latitude |-> lat, longitude |-> lon]] :
        lat \in {"40.2", None}, lon \in {"-105.2", None}}

\* node_id_1 / node_id_2 may be missing (None) or name no node (n9)
ConnectionData ==
    [node_id_1 : {"n1", "n9"}, node_id_2 : {"n1", "n2", None},
     connection_type : {[button_added |-> None, value |-> "reference"],
                        [button_added |-> "reference", value |-> "aerial cable"],
                        [button_added |-> "aerial cable", value |-> "reference"]},
     attachment_height : {<<>>}]

ConnectionLists == UNION {[1..n -> ConnectionData] : n \in 0..MaxConnections}

\* the loop body without the coordinate check
ConnectionFeatureUnchecked(connection_id, c, nodes) ==
    IF c.node_id_1 \notin DOMAIN nodes \/ c.node_id_2 \notin DOMAIN nodes
    THEN <<>>
    ELSE << [connection_id |-> connection_id,
             connection_type |->
                 Resolve(c.connection_type, <<"button_added", "value">>, "Unknown"),
             attachment_height |-> ConnectionHeight(c),
             StartX |-> nodes[c.node_id_1].longitude,
             StartY |-> nodes[c.node_id_1].latitude,
             EndX |-> nodes[c.node_id_2].longitude,
             EndY |-> nodes[c.node_id_2].latitude,
             node_id_1 |-> c.node_id_1, node_id_2 |-> c.node_id_2] >>

\* the body of extractConnections' second loop: the feature appended for
\* one connection, <<>> when it is skipped
ConnectionFeature(connection_id, c, nodes) ==
    IF c.node_id_1 \notin DOMAIN nodes \/ c.node_id_2 \notin DOMAIN nodes
    THEN <<>>
    ELSE IF \E coord \in {nodes[c.node_id_1].latitude,
                          nodes[c.node_id_1].longitude,
                          nodes[c.node_id_2].latitude,
                          nodes[c.node_id_2].longitude} : coord = None
    THEN <<>>
    ELSE << [connection_id |-> connection_id,
             connection_type |->
                 Resolve(c.connection_type, <<"button_added", "value">>, "Unknown"),
             attachment_height |-> ConnectionHeight(c),
             StartX |-> nodes[c.node_id_1].longitude,
             StartY |-> nodes[c.node_id_1].latitude,
             EndX |-> nodes[c.node_id_2].longitude,
             EndY |-> nodes[c.node_id_2].latitude,
             node_id_1 |-> c.node_id_1, node_id_2 |-> c.node_id_2] >>

\* valid_connections after the connections i.. of the dict
RECURSIVE ValidConnections(_, _, _)
ValidConnections(connections, nodes, i) ==
    IF i > Len(connections) THEN <<>>
    ELSE ConnectionFeature(i, connections[i], nodes)
            \o ValidConnections(connections, nodes, i + 1)

InitConnections ==
    /\ pc = "start"
    /\ inp \in [connections : ConnectionLists, nodes : NodeSets]
    /\ out = <<>>
    /\ days_elapsed = 7
    /\ NoBurndown
    /\ NoStore

\* extractConnections(connections, nodes)
ExtractAllConnections ==
    /\ pc = "start"
    /\ out' = ValidConnections(inp.connections, inp.nodes, 1)
    /\ pc' = "done"
    /\ UNCHANGED <<inp, bdVars, dbVars>>

NextConnections == ExtractAllConnections

SpecConnections == InitConnections /\ [][NextConnections]_vars

----------------------------------------------------------------------------
(* Properties of SpecConnections *)

\* connection i has both endpoints among the nodes, all coordinates there
HasEndpoints(i) ==
    LET c == inp.connections[i]
    IN  /\ c.node_id_1 \in DOMAIN inp.nodes
        /\ c.node_id_2 \in DOMAIN inp.nodes
        /\ inp.nodes[c.node_id_1].latitude # None
        /\ inp.nodes[c.node_id_1].longitude # None
        /\ inp.nodes[c.node_id_2].latitude # None
        /\ inp.nodes[c.node_id_2].longitude # None

\* C19: every connection returned by extractConnections has both endpoints
\* in the node set and four non-null coordinates; the connections lacking
\* one are dropped and all others are returned, in order
C19_ConnectionEndpoints ==
    pc = "done" =>
       /\ \A k \in 1..Len(out) :
             /\ out[k].node_id_1 \in DOMAIN inp.nodes
             /\ out[k].node_id_2 \in DOMAIN inp.nodes
             /\ None \notin {out[k].StartX, out[k].StartY, out[k].EndX, out[k].EndY}
             /\ HasEndpoints(out[k].connection_id)
             /\ \A j \in 1..(k - 1) : out[j].connection_id < out[k].connection_id
       /\ \A i \in 1..Len(inp.connections) :
             HasEndpoints(i) => \E k \in 1..Len(out) : out[k].connection_id = i

\* one connection returned after one without a node and one without a
\* coordinate were dropped
C19_Witness ==
    /\ pc = "done" /\ Len(out) = 1 /\ out[1].connection_id = 3
    /\ inp.connections[1].node_id_1 = "n9"
    /\ inp.connections[2].node_id_2 = "n2"
    /\ inp.connections[2].node_id_1 = "n1"
    /\ inp.nodes.n2.latitude = None

\* C20: no connection whose resolved connection_type is "reference" is in
\* the output of extractConnections
C20_NoReferenceConnections ==
    pc = "done" => \A k \in 1..Len(out) : out[k].connection_type # "reference"
----------------------------------------------------------------------------
(* The utility of a job of several nodes, as update_job_metrics,           *)
(* record_job_metrics and main() each assign it.                           *)

MaxNodes == 3

\* a pole whose company is in its company attribute, not in pole_tag
AttributePole(id, co) ==
    [Pole(id, None, FALSE) EXCEPT !.company = [NullBag EXCEPT !["-Imported"] = co]]

\* the last two: a finished pole, and a reference node that carries
\* field_completed and backoffice_complete
UtilityPoles ==
    {Pole("n1", co, FALSE) : co \in {None, "U1", "U2"}}
    \cup {AttributePole("n1", co) : co \in {"U1", "U2"}}
    \cup {[Pole("n1", "U1", TRUE) EXCEPT !.field_completed = TRUE],
          [Reference("n1") EXCEPT !.field_completed = TRUE,
                                  !.backoffice_complete = TRUE]}

UtilityJobs ==
    {Job("Pending Field Collection", "P1", "u1", ns) :
        ns \in UNION {[1..n -> UtilityPoles] : n \in 0..MaxNodes}}

InitUtility ==
    /\ pc = "start"
    /\ inp \in UtilityJobs
    /\ out = <<>>
    /\ days_elapsed = 7
    /\ NoBurndown
    /\ NoStore

\* burndown.update_job_metrics(job_data)
FoldJob ==
    /\ pc = "start"
    /\ UpdateJobMetrics(inp, now)
    /\ out' = [op |-> "update_job_metrics"]
    /\ pc' = "done"
    /\ UNCHANGED <<inp, days_elapsed, now, dbVars>>

\* recorder.record_job_metrics(job_data, timestamp)
RecordJob ==
    /\ pc = "start"
    /\ SetDB(RecordJobMetricsDB(DB, inp, 0))
    /\ st_last' = [n |-> 1, job |-> inp, timestamp |-> 0]
    /\ out' = [op |-> "record_job_metrics"]
    /\ pc' = "done"
    /\ UNCHANGED <<inp, bdVars, user_daily_summary, burndown_metrics, writers>>

\* main(): the utility of the job's summary row
SummariseJob ==
    /\ pc = "start"
    /\ out' = [op |-> "main", utility |-> MainUtility(inp.nodes, 1)]
    /\ pc' = "done"
    /\ UNCHANGED <<inp, bdVars, dbVars>>

NextUtility == FoldJob \/ RecordJob \/ SummariseJob

SpecUtility == InitUtility /\ [][NextUtility]_vars

----------------------------------------------------------------------------
(* Properties of SpecUtility *)

\* the companies resolved for the greatest number of the job's nodes
MajorityCompanies(job) ==
    LET cs == {NodeCompany(job.nodes[i]) : i \in 1..Len(job.nodes)} \ {None}
    IN  {c \in cs : \A d \in cs :
            CompanyCount(job.nodes, d) <= CompanyCount(job.nodes, c)}

IsMajority(utility, job) ==
    IF MajorityCompanies(job) = {} THEN utility = "Unknown"
    ELSE utility \in MajorityCompanies(job)

\* C21: without a job-level utility the burndown fold, the job summary and
\* the job_metrics row all assign the company resolved for the largest
\* number of the job's nodes, "Unknown" only when no node resolves to one
C21_MajorityUtility ==
    pc = "done" =>
       /\ out.op = "update_job_metrics" =>
             /\ IsMajority(bd_last.utility, inp)
             /\ bd_last.utility = RecorderUtility(inp)
       /\ out.op = "record_job_metrics" =>
             \A r \in BagToSet(job_metrics) : IsMajority(r.utility, inp)
       /\ out.op = "main" =>
             /\ IsMajority(out.utility, inp)
             /\ out.utility = RecorderUtility(inp)
\* completed counts of a record within 0..total_poles
Within(r, fields) ==
    \A f \in fields : 0 <= r[f] /\ r[f] <= r.total_poles

\* C26: every utility, project and status bucket of the calculator and
\* every job_metrics row and daily snapshot of record_job_metrics has
\* 0 <= completed <= total_poles
C26_CompletedWithinTotal ==
    /\ \A u \in DOMAIN utility_metrics :
          Within(utility_metrics[u], {"completed_poles"})
    /\ \A p \in DOMAIN project_metrics :
          Within(project_metrics[p], {"completed_poles"})
    /\ \A st \in DOMAIN status_metrics :
          Within(status_metrics[st], {"completed_poles"})
    /\ \A r \in BagToSet(job_metrics) :
          Within(r, {"completed_poles", "field_complete", "back_office_complete"})
    /\ \A r \in BagToSet(daily_snapshots) :
          Within(r, {"field_complete", "back_office_complete"})

----------------------------------------------------------------------------
(* The height of a pole's attachment, from the channels of its main photo. *)
(* A channel is [trace, measured_height]: the trace its _trace names and   *)
(* its _measured_height, <<>> for None.                                    *)

MaxChannels == 2

Traces ==
    {[company |-> "Clearnetworx", proposed |-> TRUE, trace_type |-> "cable",
      cable_type |-> "Fiber Optic Com"],
     [company |-> "Other", proposed |-> TRUE, trace_type |-> "cable",
      cable_type |-> "Fiber Optic Com"],
     [company |-> "Clearnetworx", proposed |-> TRUE, trace_type |-> "down_guy",
      cable_type |-> None]}

Channels == [trace : Traces, measured_height : {<<>>, <<240>>, <<301>>}]

\* the condition on trace_data in the wire loop
WireFilter(trace) ==
    /\ trace.company = "Clearnetworx" /\ trace.proposed
    /\ trace.trace_type = "cable" /\ trace.cable_type = "Fiber Optic Com"

\* the condition on trace_data in the guying loop
GuyingFilter(trace) ==
    /\ trace.company = "Clearnetworx" /\ trace.proposed
    /\ trace.trace_type = "down_guy"

\* the _measured_height of the channels i.. whose trace passes the filter
RECURSIVE WireHeights(_, _)
WireHeights(channels, i) ==
    IF i > Len(channels) THEN <<>>
    ELSE IF WireFilter(channels[i].trace)
    THEN <<channels[i].measured_height>> \o WireHeights(channels, i + 1)
    ELSE WireHeights(channels, i + 1)

RECURSIVE GuyingHeights(_, _)
GuyingHeights(channels, i) ==
    IF i > Len(channels) THEN <<>>
    ELSE IF GuyingFilter(channels[i].trace)
    THEN <<channels[i].measured_height>> \o GuyingHeights(channels, i + 1)
    ELSE GuyingHeights(channels, i + 1)

\* extractNodes: poa_height of a node with the main photo
MainPhotoPoa(photo) ==
    PoaHeight([wire |-> WireHeights(photo.wire, 1),
               guying |-> GuyingHeights(photo.guying, 1)])

\* _get_editor_info: poa_height from the wire channels i.. of a main photo
\* that has editors, the first truthy _measured_height whatever its trace
RECURSIVE FirstMeasured(_, _)
FirstMeasured(channels, i) ==
    IF i > Len(channels) THEN <<>>
    ELSE IF channels[i].measured_height # <<>>
            /\ channels[i].measured_height[1] # 0
    THEN channels[i].measured_height
    ELSE FirstMeasured(channels, i + 1)

\* _get_editor_info: editor_info['poa_height'] of a node with the photo
RecorderPoa(photo) ==
    IF ~photo.has_editors THEN <<>> ELSE FirstMeasured(photo.wire, 1)

MainPhotos ==
    [has_editors : BOOLEAN,
     wire : UNION {[1..n -> Channels] : n \in 0..MaxChannels},
     guying : UNION {[1..n -> Channels] : n \in 0..1}]

InitHeight ==
    /\ pc = "start"
    /\ inp \in MainPhotos
    /\ out = <<>>
    /\ days_elapsed = 7
    /\ NoBurndown
    /\ NoStore

\* extractNodes on a pole whose main photo is inp
ExtractPoa ==
    /\ pc = "start"
    /\ out' = [op |-> "extractNodes", poa_height |-> MainPhotoPoa(inp)]
    /\ pc' = "done"
    /\ UNCHANGED <<inp, bdVars, dbVars>>

\* _extract_pole_data on a pole whose main photo is inp
PersistPoa ==
    /\ pc = "start"
    /\ out' = [op |-> "_get_editor_info", poa_height |-> RecorderPoa(inp)]
    /\ pc' = "done"
    /\ UNCHANGED <<inp, bdVars, dbVars>>

NextHeight == ExtractPoa \/ PersistPoa

SpecHeight == InitHeight /\ [][NextHeight]_vars

----------------------------------------------------------------------------
(* Properties of SpecHeight *)

\* the channels of a family that pass its filter and hold a height
Yielding(channels, family) ==
    {i \in 1..Len(channels) :
        /\ channels[i].measured_height # <<>>
        /\ IF family = "wire" THEN WireFilter(channels[i].trace)
           ELSE GuyingFilter(channels[i].trace)}

\* the height in inches the rule of the claim gives: the first yielding
\* wire channel, else the first yielding guying channel, else none
RuleHeight(photo) ==
    LET w == Yielding(photo.wire, "wire")
        g == Yielding(photo.guying, "guying")
    IN  IF w # {}
        THEN photo.wire[CHOOSE i \in w : \A j \in w : i <= j].measured_height
        ELSE IF g # {}
        THEN photo.guying[CHOOSE i \in g : \A j \in g : i <= j].measured_height
        ELSE <<>>

\* C22: the height is that of the first wire channel of the main photo
\* whose trace passes the ownership filter, guying channels are a fallback,
\* a channel whose trace fails the filter never supplies it, no match gives
\* no height; the poa_height the recorder persists follows the same rule
C22_HeightExtraction ==
    pc = "done" =>
       /\ out.op = "extractNodes" =>
             out.poa_height = IF RuleHeight(inp) = <<>> THEN <<>>
                              ELSE FeetInches(RuleHeight(inp)[1])
       /\ out.op = "_get_editor_info" => out.poa_height = RuleHeight(inp)
----------------------------------------------------------------------------
(* get_weekly_jobs(start_date, end_date, test_mode): the paging loop over  *)
(* the updatedjobslist endpoint.  out.requests is the number of requests   *)
(* made so far, kept modulo RequestWrap; out.pages is the number of pages  *)
(* in all_updated_jobs, MaxPages standing for MaxPages or more.            *)

RequestWrap == 8

MaxPages == 3

MaxDate == 2

\* what one request can meet: a status other than 200, a decoded page of
\* 200 (empty, fewer than 200 jobs, or 200 jobs ending at last_updated), or
\* an exception of the connection or of json.loads
WeeklyResponses ==
    {[status |-> s, page |-> "none", last_updated |-> 0] : s \in {429, 500}}
    \cup {[status |-> 200, page |-> p, last_updated |-> 0] :
             p \in {"empty", "partial", "raises"}}
    \cup {[status |-> 200, page |-> "full", last_updated |-> d] :
             d \in 0..MaxDate}

InitWeekly ==
    /\ pc = "requesting"
    /\ inp \in [test_mode : BOOLEAN]
    /\ out = [requests |-> 0, pages |-> 0, current_from_date |-> 0]
    /\ days_elapsed = 7
    /\ NoBurndown
    /\ NoStore

\* if test_mode: return TEST_JOB_IDS
ReturnTestJobs ==
    /\ pc = "requesting" /\ inp.test_mode
    /\ pc' = "returned"
    /\ UNCHANGED <<inp, out, bdVars, dbVars>>

\* one iteration of `while True`: a request and what its response leads to
WeeklyRequest ==
    /\ pc = "requesting" /\ ~inp.test_mode
    /\ \E resp \in WeeklyResponses :
          LET asked == [out EXCEPT !.requests = (@ + 1) % RequestWrap]
              kept  == [asked EXCEPT !.pages = Min(@ + 1, MaxPages)]
          IN  IF resp.status = 429
              THEN out' = asked /\ pc' = "requesting"
              ELSE IF resp.status # 200 \/ resp.page \in {"empty", "raises"}
              THEN out' = asked /\ pc' = "returned"
              ELSE IF resp.page = "full"
              THEN /\ out' = [kept EXCEPT !.current_from_date = resp.last_updated]
                   /\ pc' = "requesting"
              ELSE out' = kept /\ pc' = "returned"
    /\ UNCHANGED <<inp, bdVars, dbVars>>

NextWeekly == ReturnTestJobs \/ WeeklyRequest

SpecWeekly == InitWeekly /\ [][NextWeekly]_vars

\* the loop sleeps 2 seconds and asks again: an iteration that can be made
\* is made
SpecWeeklyFair == SpecWeekly /\ WF_vars(WeeklyRequest) /\ WF_vars(ReturnTestJobs)

----------------------------------------------------------------------------
(* Properties of SpecWeeklyFair *)

\* C23: get_weekly_jobs returns after a bounded number of requests for
\* every sequence of responses, a 429 on every request and a full page on
\* every request included
C23_WeeklyJobsTerminates == <>(pc = "returned")
----------------------------------------------------------------------------
(* The read side: ReportQueries over a window (start_date, end_date).      *)

MaxTime == 3

\* x BETWEEN lo AND hi
Between(x, lo, hi) == lo <= x /\ x <= hi

\* get_weekly_job_metrics: the job_metrics rows of daily_metrics
WeeklyJobMetrics(start_date, end_date) ==
    {r \in BagToSet(job_metrics) : Between(r.timestamp, start_date, end_date)}

\* get_status_flow_analysis: the status_changes rows of status_flows
StatusFlowAnalysis(start_date, end_date) ==
    {r \in BagToSet(status_changes) : Between(r.changed_at, start_date, end_date)}

InitReport ==
    /\ pc = "stored"
    /\ inp = <<>>
    /\ out = <<>>
    /\ days_elapsed = 7
    /\ NoBurndown
    /\ \E ts \in SUBSET (0..MaxTime) :
          job_metrics = SetToBag({[job_id |-> "j1", timestamp |-> t,
                                   status |-> "Delivered"] : t \in ts})
    /\ \E ts \in SUBSET (0..MaxTime) :
          status_changes = SetToBag({[job_id |-> "j1", changed_at |-> t,
                                      previous_status |-> "QA Review",
                                      new_status |-> "Delivered"] : t \in ts})
    /\ daily_snapshots = EmptyBag
    /\ pole_metrics = EmptyBag
    /\ user_metrics = EmptyBag
    /\ user_daily_summary = EmptyBag
    /\ burndown_metrics = EmptyBag
    /\ st_last = [n |-> 0]
    /\ writers = <<>>

\* the two queries of a report over one window
QueryWindow ==
    /\ pc = "stored"
    /\ \E start_date \in 0..MaxTime, end_date \in 0..MaxTime :
          /\ start_date < end_date
          /\ inp' = [start_date |-> start_date, end_date |-> end_date]
          /\ out' = [job_metrics |-> WeeklyJobMetrics(start_date, end_date),
                     status_flows |-> StatusFlowAnalysis(start_date, end_date)]
    /\ pc' = "queried"
    /\ UNCHANGED <<bdVars, dbVars>>

NextReport == QueryWindow

SpecReport == InitReport /\ [][NextReport]_vars

----------------------------------------------------------------------------
(* Properties of SpecReport *)

\* C24: the report window is half-open: a stored row is read exactly when
\* start <= its timestamp / changed_at < end, so a row at start is
\* included and a row at end is excluded
C24_HalfOpenWindow ==
    pc = "queried" =>
       /\ \A r \in BagToSet(job_metrics) :
             (r \in out.job_metrics) <=>
                (inp.start_date <= r.timestamp /\ r.timestamp < inp.end_date)
       /\ \A r \in BagToSet(status_changes) :
             (r \in out.status_flows) <=>
                (inp.start_date <= r.changed_at /\ r.changed_at < inp.end_date)
----------------------------------------------------------------------------
(* Folds of update_job_metrics over jobs of which some raise part-way.     *)

MaxRollups == 3

\* jobs whose status or assigned_OSP is a JSON list
RaisingJobs ==
    {[Job(st, "P1", "u1", <<Pole("n1", "U1", TRUE), Pole("n2", "U1", FALSE)>>)
         EXCEPT !.shape = sh] :
        st \in {"Pending Photo Annotation", "Delivered"},
        sh \in {"status_unhashable", "osp_unhashable"}}

RollupJobs ==
    RaisingJobs
    \cup {Job(st, p, "u1", <<Pole("n1", u, TRUE), Pole("n2", u, FALSE)>>) :
             st \in {"Pending Photo Annotation", "Delivered"},
             p \in Projects, u \in {"U1", "U2"}}

InitRollup ==
    /\ pc = "run"
    /\ inp = <<>>
    /\ out = <<>>
    /\ days_elapsed \in {0, 7}
    /\ NoBurndown
    /\ NoStore

\* burndown.update_job_metrics(job_data), its exception handler included
FoldRollup ==
    /\ pc = "run" /\ now < MaxRollups
    /\ \E job \in RollupJobs :
          /\ UpdateJobMetrics(job, now)
          /\ inp' = job.shape
    /\ now' = now + 1
    /\ UNCHANGED <<pc, out, days_elapsed, dbVars>>

NextRollup == FoldRollup

SpecRollup == InitRollup /\ [][NextRollup]_vars

----------------------------------------------------------------------------
(* Properties of SpecRollup *)

\* the sum of a field over the buckets keys of a rollup
RECURSIVE SumOver(_, _, _)
SumOver(metrics, keys, field) ==
    IF keys = {} THEN 0
    ELSE LET k == CHOOSE x \in keys : TRUE
         IN  metrics[k][field] + SumOver(metrics, keys \ {k}, field)

Rollup(metrics, field) == SumOver(metrics, DOMAIN metrics, field)

\* C25: after any sequence of update_job_metrics calls, those that fail
\* part-way included, total_poles summed over the utilities equals the sum
\* over the projects and the sum over the status buckets, and
\* completed_poles likewise
C25_RollupConservation ==
    \A field \in {"total_poles", "completed_poles"} :
       /\ Rollup(utility_metrics, field) = Rollup(project_metrics, field)
       /\ Rollup(project_metrics, field) = Rollup(status_metrics, field)
----------------------------------------------------------------------------
(* The same jobs folded by two calculators, the second in another order.   *)

MaxOrdered == 3

\* jobs of utility U1: P1 gets a back-office and a field user, P2 none
OrderJobs ==
    {Job("Pending Photo Annotation", "P1", "u1", <<Pole("n1", "U1", FALSE)>>),
     Job("Pending Field Collection", "P1", "u2", <<Pole("n1", "U1", TRUE)>>),
     Job("Delivered", "P2", None, <<Pole("n1", "U1", FALSE)>>),
     Job("Delivered", "P2", "u1", <<Pole("n1", "U2", FALSE)>>)}

Orders ==
    {p \in [1..MaxOrdered -> 1..MaxOrdered] :
        \A i, j \in 1..MaxOrdered : p[i] = p[j] => i = j}

\* run_rate and whether estimated_completion is set, per utility
UtilityRates ==
    [u \in DOMAIN utility_metrics |->
        [run_rate |-> utility_metrics[u].run_rate,
         estimated |-> utility_metrics[u].estimated_completion # <<>>]]

InitOrder ==
    /\ pc = "in order"
    /\ inp \in [jobs : [1..MaxOrdered -> OrderJobs], order : Orders]
    /\ out = <<>>
    /\ days_elapsed \in {0, 7}
    /\ NoBurndown
    /\ NoStore

\* first run: update_job_metrics over the jobs as listed
FoldListed ==
    /\ pc = "in order" /\ now < MaxOrdered
    /\ UpdateJobMetrics(inp.jobs[now + 1], now)
    /\ now' = now + 1
    /\ UNCHANGED <<pc, inp, out, days_elapsed, dbVars>>

\* the second run constructs its own BurndownCalculator
SecondCalculator ==
    /\ pc = "in order" /\ now = MaxOrdered
    /\ out' = UtilityRates
    /\ utility_metrics' = EmptyDict
    /\ project_metrics' = EmptyDict
    /\ status_metrics' = EmptyDict
    /\ weekly_completion_rates' = EmptyDict
    /\ node_processing_stats' = NewNodeStats
    /\ now' = 0
    /\ bd_last' = <<>>
    /\ pc' = "reordered"
    /\ UNCHANGED <<inp, days_elapsed, dbVars>>

\* second run: update_job_metrics over the jobs in the order inp.order
FoldReordered ==
    /\ pc = "reordered" /\ now < MaxOrdered
    /\ UpdateJobMetrics(inp.jobs[inp.order[now + 1]], now)
    /\ now' = now + 1
    /\ UNCHANGED <<pc, inp, out, days_elapsed, dbVars>>

NextOrder == FoldListed \/ SecondCalculator \/ FoldReordered

SpecOrder == InitOrder /\ [][NextOrder]_vars

----------------------------------------------------------------------------
(* Properties of SpecOrder *)

\* C28: the run_rate of every utility, and whether its
\* estimated_completion is set, are the same for every order in which the
\* jobs are folded
C28_RunRateOrderIndependent ==
    (pc = "reordered" /\ now = MaxOrdered) => UtilityRates = out
----------------------------------------------------------------------------
(* update_job_metrics on input that is not of the expected shape.          *)

MaxRejects == 3

MalformedShapes == {"job_not_dict", "metadata_not_dict", "nodes_not_dict"}

\* what stands in job_data: jobs of the expected shape, and for each of them
\* a list in its place, a list as its metadata and a list as its nodes
RejectJobs ==
    {[Job(st, p, "u1", <<Pole("n1", u, TRUE), Pole("n2", u, FALSE)>>)
         EXCEPT !.shape = sh] :
        st \in {"Pending Photo Annotation", "Delivered"},
        p \in {"P1"}, u \in {"U1", "U2"},
        sh \in MalformedShapes \cup {"ok"}}

InitReject ==
    /\ pc = "run"
    /\ inp = <<>>
    /\ out = <<>>
    /\ days_elapsed \in {0, 7}
    /\ NoBurndown
    /\ NoStore

\* burndown.update_job_metrics(job_data): the method has no raise outside
\* its try block, whose handler logs and falls through to the end
CallUpdate ==
    /\ pc \in {"run", "returned"} /\ now < MaxRejects
    /\ \E job \in RejectJobs :
          /\ UpdateJobMetrics(job, now)
          /\ inp' = job.shape
    /\ now' = now + 1
    /\ pc' = "returned"
    /\ UNCHANGED <<out, days_elapsed, dbVars>>

NextReject == CallUpdate

SpecReject == InitReject /\ [][NextReject]_vars

\* C29: a call of update_job_metrics with a job_data, a metadata or a nodes
\* that is not a mapping returns and leaves utility_metrics,
\* project_metrics, status_metrics, weekly_completion_rates and
\* node_processing_stats as they were before the call
C29_MalformedChangesNothing ==
    [][(inp' \in MalformedShapes /\ now' = now + 1)
          => /\ pc' = "returned"
             /\ UNCHANGED <<utility_metrics, project_metrics, status_metrics,
                            weekly_completion_rates, node_processing_stats>>]_vars

\* a calculator that holds totals, rates and node statistics has just been
\* handed a job whose nodes field is a list
C29_Witness ==
    /\ pc = "returned" /\ inp = "nodes_not_dict"
    /\ utility_metrics # EmptyDict
    /\ node_processing_stats.total_nodes > 0
    /\ \E c \in DOMAIN weekly_completion_rates :
          Len(weekly_completion_rates[c]) > 0
----------------------------------------------------------------------------
(* incremental_update.py: daily_update runs against jobs that are modified *)
(* while the runs go on.  inp maps each job to its metadata.last_modified; *)
(* now is datetime.utcnow(); out holds the tracker file and the locals of  *)
(* the run in progress.                                                    *)

MaxClock == 3

DayTicks == 2

IncrementalJobs == {"j1", "j2"}

InitIncremental ==
    /\ pc = "idle"
    /\ inp = [j \in IncrementalJobs |-> <<>>]
    /\ out = [last_daily_update |-> <<>>, since_timestamp |-> <<>>,
              modified_jobs |-> {}, processed |-> {}]
    /\ days_elapsed = 7
    /\ NoBurndown
    /\ NoStore

\* a user edits job j: Katapult stamps metadata.last_modified
ModifyJob ==
    /\ \E j \in IncrementalJobs :
          /\ inp[j] # <<now>>
          /\ inp' = [inp EXCEPT ![j] = <<now>>]
    /\ UNCHANGED <<pc, out, bdVars, dbVars>>

\* time passes
ClockTick ==
    /\ now < MaxClock
    /\ now' = now + 1
    /\ UNCHANGED <<pc, inp, out, utility_metrics, project_metrics,
                   status_metrics, weekly_completion_rates,
                   node_processing_stats, days_elapsed, bd_last, dbVars>>

\* daily_update up to since_timestamp: JobUpdateTracker() loads the file;
\* with no last_daily_update the run looks one day back
ReadTracker ==
    /\ pc = "idle"
    /\ out' = [out EXCEPT !.since_timestamp =
                  IF out.last_daily_update # <<>> THEN out.last_daily_update
                  ELSE <<now - DayTicks>>]
    /\ pc' = "tracker read"
    /\ UNCHANGED <<inp, bdVars, dbVars>>

\* get_modified_jobs(since_timestamp): getJobList is not among the names
\* the module imports from main, so its first statement raises NameError
\* and the handler returns []
GetModifiedJobs ==
    /\ pc = "tracker read"
    /\ out' = [out EXCEPT !.modified_jobs = {}]
    /\ pc' = "listed"
    /\ UNCHANGED <<inp, bdVars, dbVars>>

\* process_jobs(modified_jobs): a job whose getJobData returns nothing is
\* passed over; the others are extracted as they stand at that moment
ProcessJobs ==
    /\ pc = "listed"
    /\ \E fetched \in SUBSET out.modified_jobs :
          out' = [out EXCEPT !.processed =
                     @ \cup {<<j, inp[j]>> : j \in fetched}]
    /\ pc' = "processed"
    /\ UNCHANGED <<inp, bdVars, dbVars>>

\* tracker.update_timestamp('daily'): utcnow() at the end of the run is
\* stored and saved
UpdateTimestamp ==
    /\ pc = "processed"
    /\ out' = [out EXCEPT !.last_daily_update = <<now>>,
                          !.since_timestamp = <<>>,
                          !.modified_jobs = {}]
    /\ pc' = "idle"
    /\ UNCHANGED <<inp, bdVars, dbVars>>

NextIncremental ==
    \/ ModifyJob
    \/ ClockTick
    \/ ReadTracker
    \/ GetModifiedJobs
    \/ ProcessJobs
    \/ UpdateTimestamp

SpecIncremental == InitIncremental /\ [][NextIncremental]_vars

====
